---------------------------- MODULE Spec2Model ----------------------------
(***************************************************************************)
(* The public ratchet tree (TreeKemPublic) of aws-mls: the node array, the *)
(* tree index, and the mutators add_leaves, batch_edit, rekey_leaf and      *)
(* apply_update_path, as a state machine over an authoritative tree that    *)
(* the caller edits through a clone.                                        *)
(***************************************************************************)
EXTENDS Integers, Sequences, FiniteSets, TLC

VARIABLES
    cfg,    \* which input universe the run draws from ("ident" or "shape")
    tree,   \* the authoritative TreeKemPublic: [nodes, index]
    last,   \* the record of the most recent call on a clone of the tree
    pc,     \* the caller: "idle", or "returned" while it holds a call's result
    wide    \* how many two-proposal bundles the run has edited with so far

vars == <<cfg, tree, last, pc, wide>>

---------------------------------------------------------------------------
(* Bounds of the model.                                                    *)

\* leaf slots a tree may grow to in the "ident" universe
MaxLeaves == 3
\* identities 1..MaxId known to the identity provider in the "ident" universe
MaxId == 2
\* HPKE and signature public keys 1..MaxKey in the "ident" universe
MaxKey == 2
\* leaf slots a tree may grow to in the "shape" universe
MaxShapeLeaves == 5
\* two-proposal bundles per run of the "ident" universe; the run ends with the last
MaxWide == 1

\* leaves of the tree a "search" run starts from
MaxSearch == 3

\* calls a "search" run makes
MaxSearchCalls == 2

---------------------------------------------------------------------------
(* Values.                                                                 *)

NoErr == [k |-> "None", n |-> 0]
Err(kind, num) == [k |-> kind, n |-> num]

Blank == [t |-> "B"]
LeafN(l) == [t |-> "L", leaf |-> l]
ParentN(pk, um) == [t |-> "P", pk |-> pk, um |-> um]

\* the custom proposal types of test custom_proposal_support
test_proposal_type == 42
other_proposal_type == 43
ProposalTypes == {test_proposal_type, other_proposal_type}

\* a leaf node: identity, HPKE key, signature key and capabilities.proposals; the
\* leaves with identity 1 or signature key 1 declare the test proposal type
Leaf(i, h, s) ==
    [id |-> i, hpke |-> h, sig |-> s,
     proposals |-> IF i = 1 \/ s = 1 THEN {test_proposal_type} ELSE {}]

EmptyIndex ==
    [ids |-> <<>>, hpke |-> <<>>, sig |-> <<>>, props |-> [pt \in ProposalTypes |-> 0]]
EmptyTree == [nodes |-> <<>>, index |-> EmptyIndex, hashes |-> <<>>]

---------------------------------------------------------------------------
(* Sequence helpers.                                                       *)

RECURSIVE SeqWithout(_, _, _)
\* the sequence s without the positions (1-based) in the set drop
SeqWithout(s, drop, i) ==
    IF i > Len(s) THEN <<>>
    ELSE IF i \in drop THEN SeqWithout(s, drop, i + 1)
         ELSE <<s[i]>> \o SeqWithout(s, drop, i + 1)

Range(s) == {s[i] : i \in 1..Len(s)}

---------------------------------------------------------------------------
(* Tree math over the node numbering: leaves even, parents odd.            *)

RECURSIVE Pow2(_)
Pow2(k) == IF k = 0 THEN 1 ELSE 2 * Pow2(k - 1)

RECURSIVE level(_)
level(n) == IF n % 2 = 0 THEN 0 ELSE 1 + level(n \div 2)

RECURSIVE NextPow2From(_, _)
NextPow2From(p, x) == IF p >= x THEN p ELSE NextPow2From(2 * p, x)

next_power_of_two(x) == NextPow2From(1, x)

root(numLeaves) == numLeaves - 1

parent(n) ==
    LET k == level(n)
        b == (n \div Pow2(k + 1)) % 2
    IN n + Pow2(k) - b * Pow2(k + 1)

\* leaf indices [lo, hi] below node n
subtree(n) ==
    LET k == level(n)
    IN [lo |-> (n - (Pow2(k) - 1)) \div 2, hi |-> (n + (Pow2(k) - 1)) \div 2]

RECURSIVE PathFrom(_, _)
PathFrom(n, numLeaves) ==
    IF n = root(numLeaves) THEN <<>>
    ELSE <<parent(n)>> \o PathFrom(parent(n), numLeaves)

---------------------------------------------------------------------------
(* NodeVec: node index n is position n + 1 of the sequence.                *)

At(nodes, n) == IF n + 1 \in 1..Len(nodes) THEN nodes[n + 1] ELSE Blank

total_leaf_count(nodes) == next_power_of_two(Len(nodes) \div 2 + 1)

is_leaf_at(nodes, li) == At(nodes, 2 * li).t = "L"

non_empty_leaves(nodes) ==
    {li \in 0..(Len(nodes) \div 2) : is_leaf_at(nodes, li)}

occupied_leaf_count(nodes) == Cardinality(non_empty_leaves(nodes))

\* node indices from the leaf's parent to the root of the current tree
direct_path(nodes, li) == PathFrom(2 * li, total_leaf_count(nodes))

\* Ok(Some(leaf)) with the slot blanked, Ok(None) for a blank slot,
\* Err(InvalidNodeIndex(2 * li)) outside the array
blank_leaf_node(nodes, li) ==
    IF 2 * li >= Len(nodes)
    THEN [err |-> Err("InvalidNodeIndex", 2 * li), some |-> FALSE,
          old |-> Blank, nodes |-> nodes]
    ELSE IF nodes[2 * li + 1].t = "L"
    THEN [err |-> NoErr, some |-> TRUE, old |-> nodes[2 * li + 1],
          nodes |-> [nodes EXCEPT ![2 * li + 1] = Blank]]
    ELSE [err |-> NoErr, some |-> FALSE, old |-> Blank, nodes |-> nodes]

blank_direct_path(nodes, li) ==
    LET dp == Range(direct_path(nodes, li))
    IN [p \in 1..Len(nodes) |-> IF (p - 1) \in dp THEN Blank ELSE nodes[p]]

\* first blank leaf index >= start, else the index right after the last leaf
next_empty_leaf(nodes, start) ==
    LET cand == {li \in start..(Len(nodes) \div 2) :
                    2 * li < Len(nodes) /\ nodes[2 * li + 1].t = "B"}
    IN IF cand = {} THEN (Len(nodes) + 1) \div 2
       ELSE CHOOSE li \in cand : \A o \in cand : li <= o

insert_leaf(nodes, li, leaf) ==
    LET n == 2 * li
        grown == IF n >= Len(nodes)
                 THEN nodes \o [p \in 1..(n + 1 - Len(nodes)) |-> Blank]
                 ELSE nodes
    IN [grown EXCEPT ![n + 1] = LeafN(leaf)]

RECURSIVE trim(_)
trim(nodes) ==
    IF Len(nodes) > 0 /\ nodes[Len(nodes)].t = "B"
    THEN trim(SubSeq(nodes, 1, Len(nodes) - 1))
    ELSE nodes

---------------------------------------------------------------------------
(* Identity provider and TreeIndex.                                        *)

\* IdentityProvider::identity: the canonical identity of a leaf, or an error
identity(leaf, env) ==
    IF leaf.id \in env.failIds
    THEN [err |-> Err("IdentityProviderError", 0), id |-> 0]
    ELSE [err |-> NoErr, id |-> leaf.id]

\* IdentityProvider::valid_successor: "true", "false" or "err"
valid_successor(old, new, env) ==
    CASE env.succ = "err" -> "err"
      [] env.succ = "any" -> "true"
      [] OTHER -> IF old.id = new.id THEN "true" ELSE "false"

MapPut(m, key, v) == [x \in DOMAIN m \cup {key} |-> IF x = key THEN v ELSE m[x]]
MapDel(m, key) == [x \in DOMAIN m \ {key} |-> m[x]]

\* the per-proposal-type counters with the leaf's types moved by d; a counter
\* does not go below zero
Counted(props, leaf, d) ==
    [pt \in DOMAIN props |->
        IF pt \in leaf.proposals
        THEN (IF props[pt] + d < 0 THEN 0 ELSE props[pt] + d)
        ELSE props[pt]]

\* TreeIndex::insert: DuplicateLeafData when one of the three values is taken
TreeIndexInsert(index, leaf, li, ident) ==
    IF leaf.sig \in DOMAIN index.sig
    THEN [err |-> Err("DuplicateLeafData", index.sig[leaf.sig]), index |-> index]
    ELSE IF leaf.hpke \in DOMAIN index.hpke
    THEN [err |-> Err("DuplicateLeafData", index.hpke[leaf.hpke]), index |-> index]
    ELSE IF ident \in DOMAIN index.ids
    THEN [err |-> Err("DuplicateLeafData", index.ids[ident]), index |-> index]
    ELSE [err |-> NoErr,
          index |-> [ids |-> MapPut(index.ids, ident, li),
                     hpke |-> MapPut(index.hpke, leaf.hpke, li),
                     sig |-> MapPut(index.sig, leaf.sig, li),
                     props |-> Counted(index.props, leaf, 1)]]

\* TreeIndex::remove: purges the three entries of the leaf and decrements the
\* counters of its proposal types
TreeIndexRemove(index, leaf, ident) ==
    [ids |-> MapDel(index.ids, ident),
     hpke |-> MapDel(index.hpke, leaf.hpke),
     sig |-> MapDel(index.sig, leaf.sig),
     props |-> Counted(index.props, leaf, -1)]

\* TreeIndex::count_supporting_proposal
count_supporting_proposal(index, pt) == IF pt \in DOMAIN index.props THEN index.props[pt] ELSE 0

\* index_insert: look the identity up, then insert into the index
index_insert(index, leaf, li, env) ==
    LET i == identity(leaf, env)
    IN IF i.err # NoErr THEN [err |-> i.err, index |-> index]
       ELSE TreeIndexInsert(index, leaf, li, i.id)

---------------------------------------------------------------------------
(* TreeHashes.current: position n + 1 holds the hash of node n.  A hash is *)
(* the input it was computed from; the provider that fails does so at the  *)
(* first hash it is asked for.                                             *)

\* TreeHash::default()
DefaultHash == [t |-> "empty"]

\* tree_hash.rs lines 282-295; borrow_as_leaf(..).ok() of a blank is None
hash_for_leaf(leaf_index, node) ==
    [t |-> "leaf", leaf_index |-> leaf_index,
     leaf_node |-> IF node.t = "L" THEN node ELSE Blank]

\* tree_hash.rs lines 297-321, with nothing filtered
hash_for_parent(node, left_hash, right_hash) ==
    [t |-> "parent", parent_node |-> IF node.t = "P" THEN node ELSE Blank,
     left_hash |-> left_hash, right_hash |-> right_hash]

\* Vec::resize(len, TreeHash::default())
resize(hashes, len) ==
    [i \in 1..len |-> IF i <= Len(hashes) THEN hashes[i] ELSE DefaultHash]

RECURSIVE LeafHashLoop(_, _, _, _, _)
\* tree_hash.rs lines 249-259; st = [hashes, queue]
LeafHashLoop(st, nodes, ls, i, num_leaves) ==
    IF i > Len(ls) THEN st
    ELSE IF ls[i] >= num_leaves THEN LeafHashLoop(st, nodes, ls, i + 1, num_leaves)
    ELSE LeafHashLoop(
           [hashes |-> [st.hashes EXCEPT ![2 * ls[i] + 1] =
                           hash_for_leaf(ls[i], At(nodes, 2 * ls[i]))],
            queue |-> IF 2 * ls[i] # root(num_leaves)
                      THEN Append(st.queue, parent(2 * ls[i])) ELSE st.queue],
           nodes, ls, i + 1, num_leaves)

RECURSIVE ParentHashLoop(_, _, _, _)
\* tree_hash.rs lines 263-277
ParentHashLoop(hashes, nodes, queue, rt) ==
    IF queue = <<>> THEN hashes
    ELSE LET n == Head(queue)
             k == Pow2(level(n) - 1)
         IN ParentHashLoop(
              [hashes EXCEPT ![n + 1] = hash_for_parent(At(nodes, n), hashes[n - k + 1],
                                                        hashes[n + k + 1])],
              nodes,
              IF n # rt THEN Append(Tail(queue), parent(n)) ELSE Tail(queue),
              rt)

HashLoops(sized, nodes, todo, num_leaves) ==
    ParentHashLoop(LeafHashLoop([hashes |-> sized, queue |-> <<>>], nodes, todo, 1,
                                num_leaves).hashes,
                   nodes,
                   LeafHashLoop([hashes |-> sized, queue |-> <<>>], nodes, todo, 1,
                                num_leaves).queue,
                   root(num_leaves))

\* tree_hash.rs lines 245-259: node_queue when the loop over the leaves ends
LeafQueue(hashes, nodes, leaves_to_update, num_leaves) ==
    LeafHashLoop([hashes |-> resize(hashes, 2 * num_leaves - 1), queue |-> <<>>],
                 nodes, leaves_to_update, 1, num_leaves).queue

RECURSIVE Recomputed(_, _)
\* tree_hash.rs lines 263-277: the nodes popped from node_queue, in order; each
\* pop computes the hash of the node and pushes its parent unless it is the root
Recomputed(queue, rt) ==
    IF queue = <<>> THEN <<>>
    ELSE <<Head(queue)>> \o
         Recomputed(IF Head(queue) # rt THEN Append(Tail(queue), parent(Head(queue)))
                    ELSE Tail(queue), rt)

\* tree_hash.rs lines 233-280, the free function tree_hash: the resize comes
\* first, and the first hash asked of a failing provider ends the call
tree_hash_into(hashes, nodes, leaves_to_update, num_leaves, env) ==
    IF \A j \in 1..Len(leaves_to_update) : leaves_to_update[j] >= num_leaves
    THEN [hashes |-> resize(hashes, 2 * num_leaves - 1), err |-> NoErr]
    ELSE IF env.hashFail
    THEN [hashes |-> resize(hashes, 2 * num_leaves - 1),
          err |-> Err("CryptoProviderError", 0)]
    ELSE [hashes |-> HashLoops(resize(hashes, 2 * num_leaves - 1), nodes,
                               leaves_to_update, num_leaves),
          err |-> NoErr]

RECURSIVE trailing_blanks(_, _)
\* tree_hash.rs lines 82-91: from leaf l downwards while current has no entry
trailing_blanks(hashes, l) ==
    IF l < 0 \/ 2 * l < Len(hashes) THEN <<>>
    ELSE <<l>> \o trailing_blanks(hashes, l - 1)

\* defect variant of update_hashes: only the listed leaves are rehashed
update_hashes_listed(hashes, nodes, updated_leaves, env) ==
    tree_hash_into(hashes, nodes, updated_leaves, total_leaf_count(nodes), env)

\* tree_hash.rs lines 72-104; the callers' two lists (mod.rs lines 214, 557)
\* arrive as one
update_hashes(hashes, nodes, updated_leaves, env) ==
    tree_hash_into(hashes, nodes,
                   updated_leaves \o trailing_blanks(hashes, total_leaf_count(nodes) - 1),
                   total_leaf_count(nodes), env)

\* defect variant of initialize_hashes: the hashes are computed on every call
initialize_hashes_always(hashes, nodes, env) ==
    tree_hash_into(hashes, nodes, [j \in 1..total_leaf_count(nodes) |-> j - 1],
                   total_leaf_count(nodes), env)

\* tree_hash.rs lines 107-125
initialize_hashes(hashes, nodes, env) ==
    IF hashes = <<>>
    THEN tree_hash_into(hashes, nodes,
                        [j \in 1..total_leaf_count(nodes) |-> j - 1],
                        total_leaf_count(nodes), env)
    ELSE [hashes |-> hashes, err |-> NoErr]

\* lines 65-67 of tree_hash, h being what initialize_hashes returned
RootHash(h, nodes) ==
    [hashes |-> h.hashes, err |-> h.err,
     hash |-> IF h.err = NoErr THEN h.hashes[root(total_leaf_count(nodes)) + 1]
              ELSE DefaultHash]

\* tree_hash.rs lines 57-68, the method: it works on the tree itself
tree_hash(t, env) == RootHash(initialize_hashes(t.hashes, t.nodes, env), t.nodes)

\* tree_hash.rs lines 297-321: the filtered leaves leave the parent's list
hash_for_parent_filtered(node, filtered, left_hash, right_hash) ==
    [t |-> "parent",
     parent_node |-> IF node.t = "P"
                     THEN [node EXCEPT !.um = SelectSeq(@, LAMBDA u : u \notin Range(filtered))]
                     ELSE Blank,
     left_hash |-> left_hash, right_hash |-> right_hash]

RECURSIVE FilteredLeafLoop(_, _, _, _, _, _)
\* tree_hash.rs lines 249-259 with filtered leaves: such a leaf is hashed as None
FilteredLeafLoop(st, nodes, ls, i, filtered, num_leaves) ==
    IF i > Len(ls) THEN st
    ELSE IF ls[i] >= num_leaves
    THEN FilteredLeafLoop(st, nodes, ls, i + 1, filtered, num_leaves)
    ELSE FilteredLeafLoop(
           [hashes |-> [st.hashes EXCEPT ![2 * ls[i] + 1] =
                           hash_for_leaf(ls[i], IF ls[i] \in Range(filtered) THEN Blank
                                                ELSE At(nodes, 2 * ls[i]))],
            queue |-> IF 2 * ls[i] # root(num_leaves)
                      THEN Append(st.queue, parent(2 * ls[i])) ELSE st.queue],
           nodes, ls, i + 1, filtered, num_leaves)

RECURSIVE FilteredParentLoop(_, _, _, _, _)
\* tree_hash.rs lines 263-277 with filtered leaves
FilteredParentLoop(hashes, nodes, queue, filtered, rt) ==
    IF queue = <<>> THEN hashes
    ELSE LET n == Head(queue)
             k == Pow2(level(n) - 1)
         IN FilteredParentLoop(
              [hashes EXCEPT ![n + 1] =
                  hash_for_parent_filtered(At(nodes, n), filtered, hashes[n - k + 1],
                                           hashes[n + k + 1])],
              nodes,
              IF n # rt THEN Append(Tail(queue), parent(n)) ELSE Tail(queue),
              filtered, rt)

FilteredLoops(st, nodes, filtered, rt) ==
    FilteredParentLoop(st.hashes, nodes, st.queue, filtered, rt)

\* tree_hash.rs lines 233-280, the free function tree_hash with filtered leaves
\* and a provider that answers
tree_hash_filtered(hashes, nodes, leaves_to_update, filtered, num_leaves) ==
    FilteredLoops(FilteredLeafLoop([hashes |-> resize(hashes, 2 * num_leaves - 1),
                                    queue |-> <<>>],
                                   nodes, leaves_to_update, 1, filtered, num_leaves),
                  nodes, filtered, root(num_leaves))

RECURSIVE SkipBelow(_, _)
\* tree_hash.rs lines 134-137: the first loop of unmerged_in_subtree
SkipBelow(unmerged, left) ==
    IF unmerged = <<>> \/ Head(unmerged) >= left THEN unmerged
    ELSE SkipBelow(Tail(unmerged), left)

RECURSIVE TakeBelow(_, _)
\* tree_hash.rs lines 138-141: the second loop of unmerged_in_subtree
TakeBelow(unmerged, right) ==
    IF unmerged = <<>> \/ Head(unmerged) >= right THEN <<>>
    ELSE <<Head(unmerged)>> \o TakeBelow(Tail(unmerged), right)

\* tree_hash.rs lines 127-143; the subtree range is [left, right)
unmerged_in_subtree(nodes, node_unmerged, subtree_root) ==
    TakeBelow(SkipBelow(At(nodes, node_unmerged).um, subtree(subtree_root).lo),
              subtree(subtree_root).hi + 1)

\* tree_hash.rs lines 145-150
different_unmerged(nodes, ancestor, descendant) ==
    /\ At(nodes, ancestor).t # "B"
    /\ At(nodes, descendant).t # "B"
    /\ unmerged_in_subtree(nodes, ancestor, descendant) # At(nodes, descendant).um

RECURSIVE FilteredLast(_, _, _)
\* tree_hash.rs lines 161-171: filtered_sets[n].last(), the set of a node being
\* its parent's, with the parent pushed where different_unmerged says so
FilteredLast(nodes, n, rt) ==
    IF n = rt THEN rt
    ELSE IF different_unmerged(nodes, FilteredLast(nodes, parent(n), rt), parent(n))
    THEN parent(n)
    ELSE FilteredLast(nodes, parent(n), rt)

\* the leaves start_leaf..end_leaf of the subtree of n
SubtreeLeaves(n) ==
    [j \in 1..(subtree(n).hi - subtree(n).lo + 1) |-> subtree(n).lo + j - 1]

\* tree_hash.rs lines 173-184: tree_hashes[p] after the iterations of the two
\* children of p, the left one first
SubtreeHashes(nodes, p, num_leaves) ==
    tree_hash_filtered(
        tree_hash_filtered(<<>>, nodes, SubtreeLeaves(p - Pow2(level(p) - 1)),
                           At(nodes, p).um, num_leaves),
        nodes, SubtreeLeaves(p + Pow2(level(p) - 1)), At(nodes, p).um, num_leaves)

\* tree_hash.rs lines 191-213: root_original, <<>> standing for None
RootOriginal(nodes, num_leaves) ==
    IF At(nodes, root(num_leaves)).t = "P" /\ At(nodes, root(num_leaves)).um # <<>>
    THEN tree_hash_filtered(<<>>, nodes, [j \in 1..num_leaves |-> j - 1],
                            At(nodes, root(num_leaves)).um, num_leaves)
    ELSE <<>>

\* defect variant of OriginalAt: the current hashes are not consulted
OriginalAtUnset(t, i, a, ro, num_leaves) ==
    IF At(t.nodes, a).t = "B" \/ a = root(num_leaves)
    THEN (IF ro # <<>> THEN ro[i + 1] ELSE DefaultHash)
    ELSE SubtreeHashes(t.nodes, a, num_leaves)[i + 1]

\* tree_hash.rs lines 215-226: the hash of node i; ro is root_original
OriginalAt(t, i, a, ro, num_leaves) ==
    IF At(t.nodes, a).t = "B" \/ a = root(num_leaves)
    THEN (IF ro # <<>> THEN ro[i + 1]
          ELSE IF i < Len(t.hashes) THEN t.hashes[i + 1] ELSE [t |-> "panic"])
    ELSE SubtreeHashes(t.nodes, a, num_leaves)[i + 1]

OriginalHashes(t, ro, num_leaves) ==
    [i \in 1..(2 * num_leaves - 1) |->
        OriginalAt(t, i - 1, FilteredLast(t.nodes, i - 1, root(num_leaves)), ro, num_leaves)]

\* an index past the end of tree_hashes.current makes the call panic
OriginalDone(hashes) ==
    IF \E i \in 1..Len(hashes) : hashes[i] = [t |-> "panic"]
    THEN [err |-> Err("Panic", 0), hashes |-> <<>>]
    ELSE [err |-> NoErr, hashes |-> hashes]

\* tree_hash.rs lines 152-230, with a provider that answers
compute_original_hashes(t) ==
    OriginalDone(OriginalHashes(t, RootOriginal(t.nodes, total_leaf_count(t.nodes)),
                                total_leaf_count(t.nodes)))

\* the tail of update_parent_hashes: the hashes above the sender are refreshed
update_parent_hashes(hashes, nodes, sender, env) ==
    update_hashes(hashes, nodes, <<sender>>, env)

---------------------------------------------------------------------------
(* batch_edit, phase by phase.  Proposal positions are 1-based here and    *)
(* 0-based in the source.                                                  *)

RECURSIVE RemoveLoopLate(_, _, _, _, _)
\* defect variant of RemoveLoop: a rejected Remove is only reported once the
\* loop has gone through the remaining removes
RemoveLoopLate(st, rs, i, filter, env) ==
    IF i > Len(rs) THEN st
    ELSE
      LET p == rs[i]
          res == blank_leaf_node(st.nodes, p.to_remove)
      IN IF res.err = NoErr /\ res.some
         THEN LET nodes1 == blank_direct_path(res.nodes, p.to_remove)
                  ident == identity(res.old.leaf, env)
              IN IF ident.err # NoErr
                 THEN [st EXCEPT !.nodes = nodes1, !.err = ident.err]
                 ELSE RemoveLoopLate(
                        [st EXCEPT !.nodes = nodes1,
                                   !.index = TreeIndexRemove(st.index, res.old.leaf, ident.id),
                                   !.removed = Append(@, <<p.to_remove, res.old.leaf>>)],
                        rs, i + 1, filter, env)
         ELSE IF ~filter \/ p.byval
              THEN RemoveLoopLate(
                     [st EXCEPT !.err = IF st.err # NoErr THEN st.err
                                        ELSE IF res.err # NoErr THEN res.err
                                        ELSE Err("RemovingNonExistingMember", 0)],
                     rs, i + 1, filter, env)
              ELSE RemoveLoopLate([st EXCEPT !.bad = @ \cup {i}], rs, i + 1, filter, env)

RECURSIVE RemoveLoopSkip(_, _, _, _, _)
\* defect variant of the Remove loop: a filtering call drops every Remove it cannot
\* apply, the by-value ones included
RemoveLoopSkip(st, rs, i, filter, env) ==
    IF i > Len(rs) \/ st.err # NoErr THEN st
    ELSE
      LET p == rs[i]
          res == blank_leaf_node(st.nodes, p.to_remove)
      IN IF res.err = NoErr /\ res.some
         THEN LET nodes1 == blank_direct_path(res.nodes, p.to_remove)
                  ident == identity(res.old.leaf, env)
              IN IF ident.err # NoErr
                 THEN [st EXCEPT !.nodes = nodes1, !.err = ident.err]
                 ELSE RemoveLoopSkip(
                        [st EXCEPT !.nodes = nodes1,
                                   !.index = TreeIndexRemove(st.index, res.old.leaf, ident.id),
                                   !.removed = Append(@, <<p.to_remove, res.old.leaf>>)],
                        rs, i + 1, filter, env)
         ELSE IF ~filter
              THEN [st EXCEPT !.err = IF res.err # NoErr THEN res.err
                                      ELSE Err("RemovingNonExistingMember", 0)]
              ELSE RemoveLoopSkip([st EXCEPT !.bad = @ \cup {i}], rs, i + 1, filter, env)

RECURSIVE RemoveLoopLenient(_, _, _, _, _)
\* defect variant of the Remove loop: a by-reference Remove that cannot be applied
\* is dropped whatever the mode
RemoveLoopLenient(st, rs, i, filter, env) ==
    IF i > Len(rs) \/ st.err # NoErr THEN st
    ELSE
      LET p == rs[i]
          res == blank_leaf_node(st.nodes, p.to_remove)
      IN IF res.err = NoErr /\ res.some
         THEN LET nodes1 == blank_direct_path(res.nodes, p.to_remove)
                  ident == identity(res.old.leaf, env)
              IN IF ident.err # NoErr
                 THEN [st EXCEPT !.nodes = nodes1, !.err = ident.err]
                 ELSE RemoveLoopLenient(
                        [st EXCEPT !.nodes = nodes1,
                                   !.index = TreeIndexRemove(st.index, res.old.leaf, ident.id),
                                   !.removed = Append(@, <<p.to_remove, res.old.leaf>>)],
                        rs, i + 1, filter, env)
         ELSE IF p.byval
              THEN [st EXCEPT !.err = IF res.err # NoErr THEN res.err
                                      ELSE Err("RemovingNonExistingMember", 0)]
              ELSE RemoveLoopLenient([st EXCEPT !.bad = @ \cup {i}], rs, i + 1, filter, env)

RECURSIVE RemoveLoop(_, _, _, _, _)
\* the loop over by_type::<RemoveProposal>(); st = [nodes, index, removed, bad, err]
RemoveLoop(st, rs, i, filter, env) ==
    IF i > Len(rs) \/ st.err # NoErr THEN st
    ELSE
      LET p == rs[i]
          res == blank_leaf_node(st.nodes, p.to_remove)
      IN IF res.err = NoErr /\ res.some
         THEN LET nodes1 == blank_direct_path(res.nodes, p.to_remove)
                  ident == identity(res.old.leaf, env)
              IN IF ident.err # NoErr
                 THEN [st EXCEPT !.nodes = nodes1, !.err = ident.err]
                 ELSE RemoveLoop(
                        [st EXCEPT !.nodes = nodes1,
                                   !.index = TreeIndexRemove(st.index, res.old.leaf, ident.id),
                                   !.removed = Append(@, <<p.to_remove, res.old.leaf>>)],
                        rs, i + 1, filter, env)
         ELSE IF ~filter \/ p.byval
              THEN [st EXCEPT !.err = IF res.err # NoErr THEN res.err
                                      ELSE Err("RemovingNonExistingMember", 0)]
              ELSE RemoveLoop([st EXCEPT !.bad = @ \cup {i}], rs, i + 1, filter, env)

\* the end of the remove phase that reports no removed leaf
RemoveDoneForget(st, bundle) ==
    [nodes |-> st.nodes, index |-> st.index, hashes |-> st.hashes, err |-> st.err,
     removed |-> <<>>,
     bundle |-> IF st.err # NoErr THEN bundle
                ELSE [bundle EXCEPT !.removes = SeqWithout(@, st.bad, 1)],
     added |-> <<>>, updated |-> <<>>, restarts |-> 0, partial |-> <<>>]

\* the end of the remove phase that leaves the bundle as it came in
RemoveDoneKeep(st, bundle) ==
    [nodes |-> st.nodes, index |-> st.index, hashes |-> st.hashes, err |-> st.err,
     removed |-> st.removed,
     bundle |-> bundle,
     added |-> <<>>, updated |-> <<>>, restarts |-> 0, partial |-> <<>>]

\* lines 390-395: the bad removes leave the bundle; st is what the loop returned.
\* The record is the state batch_edit carries from phase to phase:
\* [nodes, index, hashes, bundle, err, removed, added, updated, restarts, partial]
RemoveDone(st, bundle) ==
    [nodes |-> st.nodes, index |-> st.index, hashes |-> st.hashes, err |-> st.err,
     removed |-> st.removed,
     bundle |-> IF st.err # NoErr THEN bundle
                ELSE [bundle EXCEPT !.removes = SeqWithout(@, st.bad, 1)],
     added |-> <<>>, updated |-> <<>>, restarts |-> 0, partial |-> <<>>]

\* lines 352-395: apply the removes, then drop the bad ones from the bundle
RemovePhase(t, bundle, filter, env) ==
    RemoveDone(RemoveLoop([nodes |-> t.nodes, index |-> t.index, hashes |-> t.hashes,
                           removed |-> <<>>, bad |-> {}, err |-> NoErr],
                          bundle.removes, 1, filter, env),
               bundle)

\* the error that reports the by-value flag where the by-reference flag belongs
InvalidProposalTypeForSenderFlag(p) ==
    [k |-> "InvalidProposalTypeForSender", n |-> 0,
     proposal_type |-> "UPDATE", sender |-> p.sender, by_ref |-> p.byval]

\* lines 405-409: MlsError::InvalidProposalTypeForSender { proposal_type, sender, by_ref }
InvalidProposalTypeForSender(p) ==
    [k |-> "InvalidProposalTypeForSender", n |-> 0,
     proposal_type |-> "UPDATE", sender |-> p.sender, by_ref |-> ~p.byval]

RECURSIVE StageLoopAbort(_, _, _, _, _)
\* defect variant of StageLoop: a failing valid_successor call ends the call
\* whatever the mode and the source of the Update
StageLoopAbort(st, us, i, filter, env) ==
    IF i > Len(us) \/ st.err # NoErr THEN st
    ELSE
      LET p == us[i] IN
      IF p.sender < 0
      THEN IF ~filter \/ p.byval
           THEN [st EXCEPT !.err = InvalidProposalTypeForSender(p)]
           ELSE StageLoopAbort([st EXCEPT !.bad = @ \cup {i}], us, i + 1, filter, env)
      ELSE
        LET res == blank_leaf_node(st.nodes, p.sender) IN
        IF res.err # NoErr THEN [st EXCEPT !.err = res.err]
        ELSE IF res.some
        THEN LET vs == valid_successor(res.old.leaf, p.leaf, env) IN
             CASE vs = "true" ->
                    LET old_id == identity(res.old.leaf, env) IN
                    IF old_id.err # NoErr
                    THEN [st EXCEPT !.nodes = res.nodes, !.err = old_id.err]
                    ELSE StageLoopAbort(
                           [st EXCEPT !.nodes = res.nodes,
                                      !.index = TreeIndexRemove(st.index, res.old.leaf, old_id.id),
                                      !.partial = Append(@, [index |-> p.sender,
                                                             old |-> res.old.leaf,
                                                             new |-> p.leaf])],
                           us, i + 1, filter, env)
               [] vs = "err" ->
                    [st EXCEPT !.nodes = res.nodes,
                               !.err = Err("IdentityProviderError", 0)]
               [] OTHER ->
                    IF ~filter \/ p.byval
                    THEN [st EXCEPT !.nodes = res.nodes, !.err = Err("InvalidSuccessor", 0)]
                    ELSE StageLoopAbort(
                           [st EXCEPT !.bad = @ \cup {i},
                                      !.nodes = insert_leaf(res.nodes, p.sender, res.old.leaf)],
                           us, i + 1, filter, env)
        ELSE IF ~filter \/ p.byval
             THEN [st EXCEPT !.err = Err("UpdatingNonExistingMember", 0)]
             ELSE StageLoopAbort([st EXCEPT !.bad = @ \cup {i}], us, i + 1, filter, env)

RECURSIVE StageLoopLose(_, _, _, _, _)
\* the staging loop that leaves the sender's leaf blank when it drops an Update
StageLoopLose(st, us, i, filter, env) ==
    IF i > Len(us) \/ st.err # NoErr THEN st
    ELSE
      LET p == us[i] IN
      IF p.sender < 0
      THEN IF ~filter \/ p.byval
           THEN [st EXCEPT !.err = InvalidProposalTypeForSender(p)]
           ELSE StageLoopLose([st EXCEPT !.bad = @ \cup {i}], us, i + 1, filter, env)
      ELSE
        LET res == blank_leaf_node(st.nodes, p.sender) IN
        IF res.err # NoErr THEN [st EXCEPT !.err = res.err]
        ELSE IF res.some
        THEN LET vs == valid_successor(res.old.leaf, p.leaf, env) IN
             CASE vs = "true" ->
                    LET old_id == identity(res.old.leaf, env) IN
                    IF old_id.err # NoErr
                    THEN [st EXCEPT !.nodes = res.nodes, !.err = old_id.err]
                    ELSE StageLoopLose(
                           [st EXCEPT !.nodes = res.nodes,
                                      !.index = TreeIndexRemove(st.index, res.old.leaf, old_id.id),
                                      !.partial = Append(@, [index |-> p.sender,
                                                             old |-> res.old.leaf,
                                                             new |-> p.leaf])],
                           us, i + 1, filter, env)
               [] vs = "err" ->
                    IF ~filter \/ p.byval
                    THEN [st EXCEPT !.nodes = res.nodes,
                                    !.err = Err("IdentityProviderError", 0)]
                    ELSE StageLoopLose(
                           [st EXCEPT !.bad = @ \cup {i},
                                      !.nodes = res.nodes],
                           us, i + 1, filter, env)
               [] OTHER ->
                    IF ~filter \/ p.byval
                    THEN [st EXCEPT !.nodes = res.nodes, !.err = Err("InvalidSuccessor", 0)]
                    ELSE StageLoopLose(
                           [st EXCEPT !.bad = @ \cup {i},
                                      !.nodes = res.nodes],
                           us, i + 1, filter, env)
        ELSE IF ~filter \/ p.byval
             THEN [st EXCEPT !.err = Err("UpdatingNonExistingMember", 0)]
             ELSE StageLoopLose([st EXCEPT !.bad = @ \cup {i}], us, i + 1, filter, env)

RECURSIVE StageLoop(_, _, _, _, _)
\* the loop over by_type::<UpdateProposal>(); st = [nodes, index, partial, bad, err]
StageLoop(st, us, i, filter, env) ==
    IF i > Len(us) \/ st.err # NoErr THEN st
    ELSE
      LET p == us[i] IN
      IF p.sender < 0
      THEN IF ~filter \/ p.byval
           THEN [st EXCEPT !.err = InvalidProposalTypeForSender(p)]
           ELSE StageLoop([st EXCEPT !.bad = @ \cup {i}], us, i + 1, filter, env)
      ELSE
        LET res == blank_leaf_node(st.nodes, p.sender) IN
        IF res.err # NoErr THEN [st EXCEPT !.err = res.err]
        ELSE IF res.some
        THEN LET vs == valid_successor(res.old.leaf, p.leaf, env) IN
             CASE vs = "true" ->
                    LET old_id == identity(res.old.leaf, env) IN
                    IF old_id.err # NoErr
                    THEN [st EXCEPT !.nodes = res.nodes, !.err = old_id.err]
                    ELSE StageLoop(
                           [st EXCEPT !.nodes = res.nodes,
                                      !.index = TreeIndexRemove(st.index, res.old.leaf, old_id.id),
                                      !.partial = Append(@, [index |-> p.sender,
                                                             old |-> res.old.leaf,
                                                             new |-> p.leaf])],
                           us, i + 1, filter, env)
               [] vs = "err" ->
                    IF ~filter \/ p.byval
                    THEN [st EXCEPT !.nodes = res.nodes,
                                    !.err = Err("IdentityProviderError", 0)]
                    ELSE StageLoop(
                           [st EXCEPT !.bad = @ \cup {i},
                                      !.nodes = insert_leaf(res.nodes, p.sender, res.old.leaf)],
                           us, i + 1, filter, env)
               [] OTHER ->
                    IF ~filter \/ p.byval
                    THEN [st EXCEPT !.nodes = res.nodes, !.err = Err("InvalidSuccessor", 0)]
                    ELSE StageLoop(
                           [st EXCEPT !.bad = @ \cup {i},
                                      !.nodes = insert_leaf(res.nodes, p.sender, res.old.leaf)],
                           us, i + 1, filter, env)
        ELSE IF ~filter \/ p.byval
             THEN [st EXCEPT !.err = Err("UpdatingNonExistingMember", 0)]
             ELSE StageLoop([st EXCEPT !.bad = @ \cup {i}], us, i + 1, filter, env)

\* lines 465-468: the updates rejected while staging leave the bundle
StageDone(st, s) ==
    [s EXCEPT !.nodes = st.nodes, !.index = st.index, !.err = st.err,
              !.partial = st.partial,
              !.bundle = IF st.err # NoErr THEN @
                         ELSE [@ EXCEPT !.updates = SeqWithout(@, st.bad, 1)]]

\* lines 397-468: blank the senders' leaves and stage the updates; an error of
\* an earlier phase has already ended the call
StagePhase(s, filter, env) ==
    IF s.err # NoErr THEN s
    ELSE StageDone(StageLoop([nodes |-> s.nodes, index |-> s.index, partial |-> <<>>,
                              bad |-> {}, err |-> NoErr],
                             s.bundle.updates, 1, filter, env),
                   s)

RECURSIVE MaxSetLoopForget(_, _, _, _, _, _)
\* defect variant of MaxSetLoop: the update that can neither be applied nor be
\* reverted is not recorded before the search gives up
MaxSetLoopForget(st, partial, broken0, i, filter, env) ==
    IF i > Len(partial) \/ st.kind # "run" THEN st
    ELSE IF i \in Range(broken0)
    THEN MaxSetLoopForget(st, partial, broken0, i + 1, filter, env)
    ELSE
      LET u == partial[i]
          res == index_insert(st.index, u.new, u.index, env)
      IN IF res.err # NoErr
         THEN LET res2 == index_insert(st.index, u.old, u.index, env) IN
              IF ~filter /\ res2.err # NoErr
              THEN [st EXCEPT !.kind = "Err", !.err = res2.err]
              ELSE IF res2.err # NoErr
              THEN [st EXCEPT !.kind = "None"]
              ELSE IF ~filter
              THEN [st EXCEPT !.kind = "Err", !.err = res.err, !.index = res2.index,
                              !.bad = Append(@, i)]
              ELSE MaxSetLoopForget([st EXCEPT !.index = res2.index, !.bad = Append(@, i)],
                                    partial, broken0, i + 1, filter, env)
         ELSE MaxSetLoopForget([st EXCEPT !.index = res.index], partial, broken0, i + 1,
                               filter, env)

RECURSIVE MaxSetLoop(_, _, _, _, _, _)
\* the loop of find_max_update_set over the updates not in broken_updates;
\* st = [index, bad (sequence), broken (sequence), kind, err]
MaxSetLoop(st, partial, broken0, i, filter, env) ==
    IF i > Len(partial) \/ st.kind # "run" THEN st
    ELSE IF i \in Range(broken0) THEN MaxSetLoop(st, partial, broken0, i + 1, filter, env)
    ELSE
      LET u == partial[i]
          res == index_insert(st.index, u.new, u.index, env)
      IN IF res.err # NoErr
         THEN LET res2 == index_insert(st.index, u.old, u.index, env) IN
              IF ~filter /\ res2.err # NoErr
              THEN [st EXCEPT !.kind = "Err", !.err = res2.err]
              ELSE IF res2.err # NoErr
              THEN [st EXCEPT !.kind = "None", !.broken = Append(@, i)]
              ELSE IF ~filter
              THEN [st EXCEPT !.kind = "Err", !.err = res.err, !.index = res2.index,
                              !.bad = Append(@, i)]
              ELSE MaxSetLoop([st EXCEPT !.index = res2.index, !.bad = Append(@, i)],
                              partial, broken0, i + 1, filter, env)
         ELSE MaxSetLoop([st EXCEPT !.index = res.index], partial, broken0, i + 1,
                         filter, env)

\* lines 666-671: what find_max_update_set returns once its loop has ended
MaxSetResult(st) ==
    IF st.kind = "run"
    THEN [kind |-> "Some", index |-> st.index, broken |-> st.broken \o st.bad,
          err |-> NoErr]
    ELSE [kind |-> st.kind, index |-> st.index, broken |-> st.broken, err |-> st.err]

\* lines 619-672: Ok(Some(index)), Ok(None) after growing broken_updates, or Err
find_max_update_set(try_index, broken_updates, partial, env, filter) ==
    MaxSetResult(MaxSetLoop([index |-> try_index, bad |-> <<>>,
                             broken |-> broken_updates, kind |-> "run", err |-> NoErr],
                            partial, broken_updates, 1, filter, env))

RECURSIVE MaxUpdateLoop(_, _, _, _, _, _)
RECURSIVE MaxUpdateStep(_, _, _, _, _, _, _)
\* defect variant of MaxUpdateStep: once one update is outside the set, every
\* staged update is left out
MaxUpdateStepAll(res, index, bad_indices, partial, env, filter, restarts) ==
    IF res.kind = "Some"
    THEN [err |-> NoErr, index |-> res.index,
          bad |-> IF res.broken = <<>> THEN <<>> ELSE [j \in 1..Len(partial) |-> j],
          restarts |-> restarts]
    ELSE IF ~filter /\ res.kind = "Err"
    THEN [err |-> res.err, index |-> index, bad |-> res.broken, restarts |-> restarts]
    ELSE IF res.broken = bad_indices
    THEN [err |-> Err("Diverges", 0), index |-> index, bad |-> res.broken,
          restarts |-> restarts]
    ELSE MaxUpdateLoop(index, res.broken, partial, env, filter, restarts + 1)

\* lines 489-496: leave the loop with Some(index), or with the error in strict
\* mode, or go round again
MaxUpdateStep(res, index, bad_indices, partial, env, filter, restarts) ==
    IF res.kind = "Some"
    THEN [err |-> NoErr, index |-> res.index, bad |-> res.broken, restarts |-> restarts]
    ELSE IF ~filter /\ res.kind = "Err"
    THEN [err |-> res.err, index |-> index, bad |-> res.broken, restarts |-> restarts]
    ELSE IF res.broken = bad_indices
    THEN [err |-> Err("Diverges", 0), index |-> index, bad |-> res.broken,
          restarts |-> restarts]
    ELSE MaxUpdateLoop(index, res.broken, partial, env, filter, restarts + 1)

\* lines 476-497: call find_max_update_set on a clone of the index until it
\* yields an index; in strict mode its error ends batch_edit
MaxUpdateLoop(index, bad_indices, partial, env, filter, restarts) ==
    MaxUpdateStep(find_max_update_set(index, bad_indices, partial, env, filter),
                  index, bad_indices, partial, env, filter, restarts)

RECURSIVE CommitLoopNoBlank(_, _, _, _)
\* defect variant of CommitLoop: the new leaf is stored and the sender's direct
\* path keeps its parents
CommitLoopNoBlank(st, partial, bad, i) ==
    IF i > Len(partial) THEN st
    ELSE LET u == partial[i] IN
         IF i \notin bad
         THEN CommitLoopNoBlank(
                [nodes |-> insert_leaf(st.nodes, u.index, u.new),
                 updated |-> Append(st.updated, u.index)],
                partial, bad, i + 1)
         ELSE CommitLoopNoBlank([st EXCEPT !.nodes = insert_leaf(st.nodes, u.index, u.old)],
                                partial, bad, i + 1)

RECURSIVE CommitLoop(_, _, _, _)
\* lines 515-526: new leaf plus blanked path, or the old leaf back
\* st = [nodes, updated]
CommitLoop(st, partial, bad, i) ==
    IF i > Len(partial) THEN st
    ELSE LET u == partial[i] IN
         IF i \notin bad
         THEN CommitLoop(
                [nodes |-> blank_direct_path(insert_leaf(st.nodes, u.index, u.new), u.index),
                 updated |-> Append(st.updated, u.index)],
                partial, bad, i + 1)
         ELSE CommitLoop([st EXCEPT !.nodes = insert_leaf(st.nodes, u.index, u.old)],
                         partial, bad, i + 1)

\* lines 499-509: the index of the maximal set replaces the tree's, the updates
\* outside the set leave the bundle; c is what the commit loop returned
CommitDone(c, m, s) ==
    [s EXCEPT !.nodes = c.nodes, !.index = m.index, !.updated = c.updated,
              !.restarts = m.restarts,
              !.bundle.updates = SeqWithout(@, Range(m.bad), 1)]

\* lines 489-526: m is what the search for the maximal set returned
UpdateDone(m, s) ==
    IF m.err # NoErr THEN [s EXCEPT !.err = m.err, !.restarts = m.restarts]
    ELSE CommitDone(CommitLoop([nodes |-> s.nodes, updated |-> <<>>], s.partial,
                               Range(m.bad), 1),
                    m, s)

\* lines 470-526: maximal update set, index swap, bundle clean-up, commit
UpdatePhase(s, filter, env) ==
    IF s.err # NoErr THEN s
    ELSE UpdateDone(MaxUpdateLoop(s.index, <<>>, s.partial, env, filter, 0), s)

RECURSIVE UnmergedLoop(_, _, _, _)
UnmergedLoop(nodes, dp, i, li) ==
    IF i > Len(dp) THEN nodes
    ELSE IF At(nodes, dp[i]).t = "P"
    THEN UnmergedLoop([nodes EXCEPT ![dp[i] + 1].um = Append(@, li)], dp, i + 1, li)
    ELSE UnmergedLoop(nodes, dp, i + 1, li)

\* defect variant of update_unmerged: the leaf goes to the front of the lists
update_unmerged_front(nodes, li) ==
    [p \in 1..Len(nodes) |->
        IF nodes[p].t = "P" /\ (p - 1) \in Range(direct_path(nodes, li))
        THEN [nodes[p] EXCEPT !.um = <<li>> \o @]
        ELSE nodes[p]]

\* defect variant of update_unmerged: only the highest non-blank parent of the
\* direct path records the leaf
update_unmerged_top(nodes, li) ==
    LET dp == direct_path(nodes, li)
        ks == {k \in 1..Len(dp) : At(nodes, dp[k]).t = "P"}
    IN IF ks = {} THEN nodes
       ELSE LET k == CHOOSE x \in ks : \A y \in ks : y <= x
            IN [nodes EXCEPT ![dp[k] + 1].um = Append(@, li)]

\* defect variant of update_unmerged: a blank node of the direct path becomes a
\* parent that records the leaf
update_unmerged_fill(nodes, li) ==
    [p \in 1..Len(nodes) |->
        IF (p - 1) \in Range(direct_path(nodes, li))
        THEN (IF nodes[p].t = "P" THEN [nodes[p] EXCEPT !.um = Append(@, li)]
              ELSE ParentN(0, <<li>>))
        ELSE nodes[p]]

\* lines 330-339: push the leaf onto every parent of its direct path that
\* borrow_as_parent_mut finds
update_unmerged(nodes, li) == UnmergedLoop(nodes, direct_path(nodes, li), 1, li)

RECURSIVE AddLoopAppend(_, _, _, _, _)
\* defect variant of AddLoop: every leaf is appended after the last slot
AddLoopAppend(st, additions, i, start, env) ==
    IF i > Len(additions) THEN st
    ELSE LET leaf == additions[i]
             index == (Len(st.nodes) + 1) \div 2
             res == index_insert(st.index, leaf, index, env)
         IN IF res.err # NoErr
            THEN AddLoopAppend([st EXCEPT !.bad = Append(@, i), !.errors = Append(@, res.err)],
                         additions, i + 1, start, env)
            ELSE AddLoopAppend([st EXCEPT !.nodes = update_unmerged(
                                                insert_leaf(st.nodes, index, leaf), index),
                                    !.index = res.index,
                                    !.added = Append(@, index)],
                         additions, i + 1, index, env)

RECURSIVE AddLoop(_, _, _, _, _)
\* st = [nodes, index, bad (sequence), added, errors]
AddLoop(st, additions, i, start, env) ==
    IF i > Len(additions) THEN st
    ELSE LET leaf == additions[i]
             index == next_empty_leaf(st.nodes, start)
             res == index_insert(st.index, leaf, index, env)
         IN IF res.err # NoErr
            THEN AddLoop([st EXCEPT !.bad = Append(@, i), !.errors = Append(@, res.err)],
                         additions, i + 1, start, env)
            ELSE AddLoop([st EXCEPT !.nodes = update_unmerged(
                                                insert_leaf(st.nodes, index, leaf), index),
                                    !.index = res.index,
                                    !.added = Append(@, index)],
                         additions, i + 1, index, env)

\* lines 565-600
add_leaves_internal(t, additions, env) ==
    AddLoop([nodes |-> t.nodes, index |-> t.index, bad |-> <<>>, added |-> <<>>,
             errors |-> <<>>],
            additions, 1, 0, env)

RECURSIVE AddErrLoopLax(_, _, _, _)
\* defect variant of AddErrLoop: only by-value adds are fatal, in either mode
AddErrLoopLax(st, info, k, filter) ==
    IF k = 0 \/ st.err # NoErr THEN st
    ELSE LET i == info.bad[k] IN
         IF st.bundle.adds[i].byval
         THEN [st EXCEPT !.err = info.errors[k]]
         ELSE AddErrLoopLax([st EXCEPT !.bundle.adds = SeqWithout(@, {i}, 1)],
                            info, k - 1, filter)

RECURSIVE AddErrLoopKeep(_, _, _, _)
\* defect variant of AddErrLoop: a dropped add stays in the bundle
AddErrLoopKeep(st, info, k, filter) ==
    IF k = 0 \/ st.err # NoErr THEN st
    ELSE LET i == info.bad[k] IN
         IF ~filter \/ st.bundle.adds[i].byval
         THEN [st EXCEPT !.err = info.errors[k]]
         ELSE AddErrLoopKeep(st, info, k - 1, filter)

RECURSIVE AddErrLoop(_, _, _, _)
\* lines 536-547: walk the failed adds from the last to the first;
\* st = [bundle, err]
AddErrLoop(st, info, k, filter) ==
    IF k = 0 \/ st.err # NoErr THEN st
    ELSE LET i == info.bad[k] IN
         IF ~filter \/ st.bundle.adds[i].byval
         THEN [st EXCEPT !.err = info.errors[k]]
         ELSE AddErrLoop([st EXCEPT !.bundle.adds = SeqWithout(@, {i}, 1)],
                         info, k - 1, filter)

\* lines 536-547: info is what add_leaves_internal returned, e what the walk
\* over its failures left of the bundle
AddErrDone(e, info, s) ==
    [s EXCEPT !.nodes = info.nodes, !.index = info.index, !.err = e.err,
              !.bundle = e.bundle, !.added = info.added]

AddDone(info, s, filter) ==
    AddErrDone(AddErrLoop([bundle |-> s.bundle, err |-> NoErr], info, Len(info.bad),
                          filter),
               info, s)

\* lines 528-547
AddPhase(s, filter, env) ==
    IF s.err # NoErr THEN s
    ELSE AddDone(add_leaves_internal([nodes |-> s.nodes, index |-> s.index],
                                     [i \in 1..Len(s.bundle.adds) |-> s.bundle.adds[i].leaf],
                                     env),
                 s, filter)

\* lines 551-555: the removes left in the bundle, then the committed updates
path_blanked(s) ==
    [j \in 1..Len(s.bundle.removes) |-> s.bundle.removes[j].to_remove] \o s.updated

\* line 557: h is what update_hashes returned
HashDone(h, s) == [s EXCEPT !.hashes = h.hashes, !.err = h.err]

\* defect variant of TrimPhase: the trailing blanks stay
TrimPhaseNoTrim(s, env) ==
    IF s.err # NoErr THEN s
    ELSE HashDone(update_hashes(s.hashes, s.nodes, path_blanked(s) \o s.added, env), s)

\* lines 549-557: trim, then rehash the leaves whose paths changed
TrimPhase(s, env) ==
    IF s.err # NoErr THEN s
    ELSE HashDone(update_hashes(s.hashes, trim(s.nodes), path_blanked(s) \o s.added, env),
                  [s EXCEPT !.nodes = trim(s.nodes)])

\* lines 559-562: BatchEditOutput on Ok, nothing but the error otherwise
Output(s) ==
    [nodes |-> s.nodes, index |-> s.index, hashes |-> s.hashes, bundle |-> s.bundle,
     err |-> s.err,
     removed |-> IF s.err = NoErr THEN s.removed ELSE <<>>,
     added |-> IF s.err = NoErr THEN s.added ELSE <<>>,
     updated |-> IF s.err = NoErr THEN s.updated ELSE <<>>,
     restarts |-> s.restarts]

\* defect variant of batch_edit: the adds are placed first and the removes act
\* on the tree the adds left
AddsFirstJoin(s3, s2) ==
    [s3 EXCEPT !.added = s2.added,
               !.err = IF s2.err # NoErr THEN s2.err ELSE s3.err]

RemoveAfterAdds(s2, bundle, filter, env) ==
    AddsFirstJoin(RemovePhase([nodes |-> s2.nodes, index |-> s2.index,
                               hashes |-> s2.hashes],
                              [s2.bundle EXCEPT !.removes = bundle.removes], filter, env),
                  s2)

batch_edit_adds_first(t, bundle, filter, env) ==
    Output(TrimPhase(UpdatePhase(StagePhase(
        RemoveAfterAdds(AddPhase(RemovePhase(t, [bundle EXCEPT !.removes = <<>>],
                                             filter, env),
                                 filter, env),
                        bundle, filter, env),
        filter, env), filter, env), env))

\* lines 341-563: the tree the call leaves behind, the bundle, and Ok or the
\* error, with the output (removed, added) when Ok
batch_edit(t, bundle, filter, env) ==
    Output(TrimPhase(AddPhase(UpdatePhase(StagePhase(RemovePhase(t, bundle, filter, env),
                                                     filter, env),
                                          filter, env),
                              filter, env),
                     env))

\* lines 194-203, with the tree index
can_support_proposal(t, pt) ==
    count_supporting_proposal(t.index, pt) = occupied_leaf_count(t.nodes)

\* lines 207-221
AddLeavesDone(h, info) ==
    [nodes |-> info.nodes, index |-> info.index, hashes |-> h.hashes,
     err |-> IF h.err # NoErr THEN h.err
             ELSE IF Len(info.errors) > 0 THEN info.errors[Len(info.errors)]
             ELSE NoErr,
     added |-> info.added]

AddLeavesHash(hashes, info, env) ==
    AddLeavesDone(update_hashes(hashes, info.nodes, info.added, env), info)

add_leaves(t, leaf_nodes, env) ==
    AddLeavesHash(t.hashes, add_leaves_internal(t, leaf_nodes, env), env)

\* TreeKemPrivate: the holder's leaf index and the secret keys along its path,
\* the leaf's own first
NoPrivate == [self_index |-> -1, secret_keys |-> <<>>]

\* TreeKemPrivate::new_self_leaf
new_self_leaf(self_index, leaf_secret) ==
    [self_index |-> self_index, secret_keys |-> <<leaf_secret>>]

\* defect variant of derive: the private tree is made for the leaf after the creator's
DeriveDoneNext(r, secret_key) ==
    [nodes |-> r.nodes, index |-> r.index, hashes |-> r.hashes, err |-> r.err,
     priv |-> IF r.err # NoErr THEN NoPrivate ELSE new_self_leaf(1, secret_key)]

\* lines 153-167: r is what add_leaves returned on the new tree
DeriveDone(r, secret_key) ==
    [nodes |-> r.nodes, index |-> r.index, hashes |-> r.hashes, err |-> r.err,
     priv |-> IF r.err # NoErr THEN NoPrivate ELSE new_self_leaf(0, secret_key)]

derive(leaf_node, secret_key, env) ==
    DeriveDone(add_leaves(EmptyTree, <<leaf_node>>, env), secret_key)

\* lines 223-252
rekey_leaf(t, li, leaf_node, env) ==
    IF ~is_leaf_at(t.nodes, li)
    THEN [nodes |-> t.nodes, index |-> t.index, hashes |-> t.hashes, err |-> Err("InvalidNodeIndex", 2 * li)]
    ELSE LET existing == At(t.nodes, 2 * li).leaf
             ident == identity(existing, env)
         IN IF ident.err # NoErr
            THEN [nodes |-> t.nodes, index |-> t.index, hashes |-> t.hashes, err |-> ident.err]
            ELSE LET ins == index_insert(TreeIndexRemove(t.index, existing, ident.id),
                                         leaf_node, li, env)
                 IN IF ins.err # NoErr
                    THEN [nodes |-> t.nodes, index |-> ins.index, hashes |-> t.hashes, err |-> ins.err]
                    ELSE [nodes |-> [t.nodes EXCEPT ![2 * li + 1] = LeafN(leaf_node)],
                          index |-> ins.index, hashes |-> t.hashes, err |-> NoErr]

\* update_node that sets the key and keeps the unmerged leaves the parent had
update_node_keep(nodes, pub_key, n) ==
    IF n >= Len(nodes) \/ nodes[n + 1].t = "L"
    THEN [err |-> Err("InvalidNodeIndex", n), nodes |-> nodes]
    ELSE [err |-> NoErr,
          nodes |-> [nodes EXCEPT ![n + 1] =
                        ParentN(pub_key, IF nodes[n + 1].t = "P" THEN nodes[n + 1].um
                                         ELSE <<>>)]]

\* lines 262-273: borrow_or_fill_node_as_parent, then key and unmerged list
update_node(nodes, pub_key, n) ==
    IF n >= Len(nodes) \/ nodes[n + 1].t = "L"
    THEN [err |-> Err("InvalidNodeIndex", n), nodes |-> nodes]
    ELSE [err |-> NoErr, nodes |-> [nodes EXCEPT ![n + 1] = ParentN(pub_key, <<>>)]]

RECURSIVE PathLoop(_, _, _, _)
\* lines 303-307: the update path's entries zipped with the direct path
PathLoop(st, entries, dp, i) ==
    IF i > Len(entries) \/ i > Len(dp) \/ st.err # NoErr THEN st
    ELSE IF entries[i] = 0 THEN PathLoop(st, entries, dp, i + 1)
    ELSE PathLoop(update_node(st.nodes, entries[i], dp[i]), entries, dp, i + 1)

\* lines 275-328; an entry 0 of update_path.nodes is None
RECURSIVE ImportLoop(_, _, _, _)
\* lines 116-118: the occupied leaves enter the index lowest first; st = [index, err]
ImportLoop(st, nodes, li, env) ==
    IF 2 * li >= Len(nodes) \/ st.err # NoErr THEN st
    ELSE IF ~is_leaf_at(nodes, li) THEN ImportLoop(st, nodes, li + 1, env)
    ELSE ImportLoop(index_insert(st.index, At(nodes, 2 * li).leaf, li, env), nodes,
                    li + 1, env)

\* lines 109-122: the index of a tree just built from nodes is not initialized
initialize_index_if_necessary(nodes, env) ==
    ImportLoop([index |-> EmptyIndex, err |-> NoErr], nodes, 0, env)

\* lines 89-106, ix being what initialize_index_if_necessary returned
ImportDone(ix, nodes) ==
    [nodes |-> nodes, index |-> ix.index, hashes |-> <<>>, err |-> ix.err]

import_node_data(nodes, env) == ImportDone(initialize_index_if_necessary(nodes, env), nodes)

\* lines 149-151
export_node_data(t) == t.nodes

\* line 325: h is what update_parent_hashes returned
PathDone(h, nodes, index) ==
    [nodes |-> nodes, index |-> index, hashes |-> h.hashes, err |-> h.err]

apply_update_path(t, sender, update_path, env) ==
    IF ~is_leaf_at(t.nodes, sender)
    THEN [nodes |-> t.nodes, index |-> t.index, hashes |-> t.hashes, err |-> Err("InvalidNodeIndex", 2 * sender)]
    ELSE LET original == At(t.nodes, 2 * sender).leaf
             ident == identity(original, env)
         IN IF ident.err # NoErr
            THEN [nodes |-> t.nodes, index |-> t.index, hashes |-> t.hashes, err |-> ident.err]
            ELSE LET n1 == [t.nodes EXCEPT ![2 * sender + 1] = LeafN(update_path.leaf_node)]
                     pl == PathLoop([err |-> NoErr, nodes |-> n1], update_path.nodes,
                                    direct_path(n1, sender), 1)
                 IN IF pl.err # NoErr
                    THEN [nodes |-> pl.nodes, index |-> t.index, hashes |-> t.hashes, err |-> pl.err]
                    ELSE LET ins == index_insert(
                                      TreeIndexRemove(t.index, original, ident.id),
                                      update_path.leaf_node, sender, env)
                         IN IF ins.err # NoErr
                            THEN [nodes |-> pl.nodes, index |-> ins.index, hashes |-> t.hashes, err |-> ins.err]
                            ELSE PathDone(update_parent_hashes(t.hashes, pl.nodes,
                                                               sender, env),
                                          pl.nodes, ins.index)

---------------------------------------------------------------------------
(* The update paths a committer can get validated: an entry is None where  *)
(* the copath child has an empty resolution (NodeVec::filtered).           *)

subtree_blank(nodes, n) ==
    LET k == level(n)
    IN \A m \in (n - (Pow2(k) - 1))..(n + (Pow2(k) - 1)) : At(nodes, m).t = "B"

filtered(nodes, sender) ==
    LET dp == direct_path(nodes, sender)
    IN [j \in 1..Len(dp) |->
          LET child == IF j = 1 THEN 2 * sender ELSE dp[j - 1]
          IN subtree_blank(nodes, 2 * dp[j] - child)]

ValidatedUpdatePath(nodes, sender, leaf, pk) ==
    LET f == filtered(nodes, sender)
    IN [leaf_node |-> leaf, nodes |-> [j \in 1..Len(f) |-> IF f[j] THEN 0 ELSE pk]]

---------------------------------------------------------------------------
(* The inputs the callers draw.                                            *)

NormalEnv == [failIds |-> {}, succ |-> "same", hashFail |-> FALSE]

Envs ==
    { NormalEnv,
      [NormalEnv EXCEPT !.succ = "any"],
      [NormalEnv EXCEPT !.succ = "err"],
      [NormalEnv EXCEPT !.failIds = {1}],
      [NormalEnv EXCEPT !.hashFail = TRUE] }

Pool(c) ==
    CASE c = "ident" -> {Leaf(i, h, s) : i \in 1..MaxId, h \in 1..MaxKey, s \in 1..MaxKey}
      [] c = "search" -> {Leaf(i, h, i) : i \in 1..MaxSearch, h \in 1..MaxSearch}
      [] OTHER -> {Leaf(k, k, k) : k \in 1..MaxShapeLeaves}

Slots(c) ==
    CASE c = "ident" -> MaxLeaves
      [] c = "search" -> MaxSearch
      [] OTHER -> MaxShapeLeaves

\* the universes whose callers bring any leaf of the pool to any slot
AnyLeaf(c) == c \in {"ident", "search"}

Rm(t, v) == [to_remove |-> t, byval |-> v]
Up(s, l, v) == [sender |-> s, leaf |-> l, byval |-> v]
Ad(l, v) == [leaf |-> l, byval |-> v]
Bundle(r, u, a) == [removes |-> r, updates |-> u, adds |-> a]

\* in strict mode the by-value flag decides nothing, so it is drawn in filter mode only
Flags(filter) == IF filter THEN BOOLEAN ELSE {FALSE}

\* the leaf a member of the "shape" universe carries in slot li
Canon(li) == Leaf(li + 1, li + 1, li + 1)

\* the slots the adds of a "shape" bundle fall into: the blanks of the tree with
\* the removed leaves taken out, lowest first
RECURSIVE FreeSlots(_, _, _)
FreeSlots(nodes, gone, n) ==
    IF n = 0 THEN <<>>
    ELSE LET free == {li \in 0..(MaxShapeLeaves - 1) :
                         ~is_leaf_at(nodes, li) \/ li \in gone}
         IN IF free = {} THEN <<>>
            ELSE LET li == CHOOSE x \in free : \A y \in free : x <= y
                 IN <<li>> \o FreeSlots(insert_leaf(nodes, li, Canon(li)), gone \ {li}, n - 1)

IdentRemoves(filter) == {Rm(t, v) : t \in 0..(MaxLeaves - 1), v \in Flags(filter)}
IdentUpdates(filter, senders) ==
    {Up(s, l, v) : s \in senders, l \in Pool("ident"), v \in Flags(filter)}
IdentAdds(filter) == {Ad(l, v) : l \in Pool("ident"), v \in Flags(filter)}

\* two-proposal bundles draw their leaves from the part of the pool whose
\* signature key carries the number of the identity
PairPool == {l \in Pool("ident") : l.sig = l.id}

IdentBundles(filter) ==
    LET R == IdentRemoves(filter)
        M == {u \in IdentUpdates(filter, 0..(MaxLeaves - 2)) : u.leaf \in PairPool}
        A == {a \in IdentAdds(filter) : a.leaf \in PairPool}
    IN {Bundle(<<r>>, <<>>, <<>>) : r \in R}
       \cup {Bundle(<<>>, <<u>>, <<>>) : u \in IdentUpdates(filter, -1..(MaxLeaves - 1))}
       \cup {Bundle(<<>>, <<>>, <<a>>) : a \in IdentAdds(filter)}
       \cup {Bundle(<<r1, r2>>, <<>>, <<>>) : r1 \in R, r2 \in R}
       \cup {Bundle(<<r>>, <<u>>, <<>>) : r \in R, u \in M}
       \cup {Bundle(<<r>>, <<>>, <<a>>) : r \in R, a \in A}
       \cup {Bundle(<<>>, <<u1, u2>>, <<>>) : u1 \in M, u2 \in M}
       \cup {Bundle(<<>>, <<u>>, <<a>>) : u \in M, a \in A}
       \cup {Bundle(<<>>, <<>>, <<a1, a2>>) : a1 \in A, a2 \in A}

ShapeBundles(nodes, filter) ==
    LET R == {Rm(t, v) : t \in 0..MaxShapeLeaves, v \in Flags(filter)}
        U == {Up(s, Canon(s), v) : s \in 0..(MaxShapeLeaves - 1), v \in Flags(filter)}
        F == {Up(s, Canon((s + 1) % MaxShapeLeaves), v) :
                 s \in 0..(MaxShapeLeaves - 1), v \in Flags(filter)}
        AddsFor(gone, n) ==
            LET fs == FreeSlots(nodes, gone, n)
            IN {[j \in 1..Len(fs) |-> Ad(Canon(fs[j]), v)] : v \in Flags(filter)}
    IN {Bundle(<<r>>, <<>>, <<>>) : r \in R}
       \cup {Bundle(<<>>, <<u>>, <<>>) : u \in U}
       \cup {Bundle(<<>>, <<>>, a) : a \in AddsFor({}, 1) \cup AddsFor({}, 2)}
       \cup {Bundle(<<r1, r2>>, <<>>, <<>>) : r1 \in R, r2 \in R}
       \cup {Bundle(<<r>>, <<u>>, <<>>) : r \in R, u \in U \cup F}
       \cup UNION {{Bundle(<<r>>, <<>>, a) : a \in AddsFor({r.to_remove}, 1)} : r \in R}
       \cup {Bundle(<<>>, <<u>>, a) : u \in U \cup F, a \in AddsFor({}, 1)}

Bundles(c, nodes, filter) ==
    IF c = "ident" THEN IdentBundles(filter) ELSE ShapeBundles(nodes, filter)

BundleSize(b) == Len(b.removes) + Len(b.updates) + Len(b.adds)

\* provider failures are drawn for the bundles of one proposal
BundleEnvs(b) == IF BundleSize(b) = 1 THEN Envs ELSE {NormalEnv}

LeafLists(c, nodes) ==
    IF c = "ident"
    THEN {<<l>> : l \in Pool(c)} \cup {<<l1, l2>> : l1 \in Pool(c), l2 \in Pool(c)}
    ELSE {[j \in 1..Len(FreeSlots(nodes, {}, n)) |-> Canon(FreeSlots(nodes, {}, n)[j])] :
             n \in 1..2} \ {<<>>}

Fits(c, nodes) == Len(nodes) <= 2 * Slots(c) - 1

---------------------------------------------------------------------------
(* The state machine: every call runs on a clone of the authoritative      *)
(* tree, and the clone replaces the tree only when the call returns Ok.    *)

NoBundle == Bundle(<<>>, <<>>, <<>>)

Call(op, pre, post, err) ==
    [op |-> op, filter |-> FALSE, env |-> NormalEnv, pre |-> pre, post |-> post,
     err |-> err, bundleIn |-> NoBundle, bundleOut |-> NoBundle, removed |-> <<>>,
     added |-> <<>>, updated |-> <<>>, restarts |-> 0, arg |-> 0, leaf |-> Leaf(0, 0, 0),
     hash |-> DefaultHash, priv |-> NoPrivate, path |-> <<>>, original |-> <<>>]

Swap(pre, post, err) == IF err = NoErr THEN post ELSE pre

InitIdent ==
    /\ cfg = "ident"
    /\ tree = EmptyTree
    /\ last = Call("new", EmptyTree, EmptyTree, NoErr)
    /\ pc = "idle"
    /\ wide = 0

InitShape ==
    /\ cfg = "shape"
    /\ tree = EmptyTree
    /\ last = Call("new", EmptyTree, EmptyTree, NoErr)
    /\ pc = "idle"
    /\ wide = 0

InitPath ==
    /\ cfg = "path"
    /\ tree = EmptyTree
    /\ last = Call("new", EmptyTree, EmptyTree, NoErr)
    /\ pc = "idle"
    /\ wide = 0

\* the public key an update path brings: in the "path" universe, whose runs are
\* made of add_leaves, batch_edit and apply_update_path, one of MaxPathKey keys
\* by the committer's slot, elsewhere key 1
MaxPathKey == 2

PathKeys(c, sender) == IF c = "path" THEN {1 + (sender % MaxPathKey)} ELSE {1}

\* a "path" run applies at most MaxPaths update paths
MaxPaths == 2

PathBudget == cfg # "path" \/ wide < MaxPaths

Walked(err) ==
    IF cfg = "search" \/ (cfg = "path" /\ err = NoErr) THEN wide + 1 ELSE wide

\* after its MaxWide-th two-proposal bundle an "ident" run goes on with add_leaves,
\* tree_hash and export/import only
Budget ==
    CASE cfg = "ident" -> wide < MaxWide
      [] cfg = "search" -> wide < MaxSearchCalls
      [] OTHER -> TRUE

Spend(b) == IF cfg = "ident" /\ BundleSize(b) >= 2 THEN wide + 1 ELSE wide

AddLeaves ==
    /\ pc = "idle"
    /\ pc' = "returned"
    /\ \E leaves \in LeafLists(cfg, tree.nodes), env \in Envs :
      \E r \in {add_leaves(tree, leaves, env)} :
        LET post == [nodes |-> r.nodes, index |-> r.index, hashes |-> r.hashes]
        IN /\ Fits(cfg, r.nodes)
           /\ tree' = Swap(tree, post, r.err)
           /\ last' = [Call("add_leaves", tree, post, r.err) EXCEPT
                          !.env = env, !.added = r.added,
                          !.bundleIn = Bundle(<<>>, <<>>,
                                              [i \in 1..Len(leaves) |-> Ad(leaves[i], TRUE)])]
           /\ UNCHANGED <<cfg, wide>>

BatchEdit ==
    /\ pc = "idle"
    /\ pc' = "returned"
    /\ Budget
    /\ \E filter \in BOOLEAN :
      \E b \in Bundles(cfg, tree.nodes, filter) :
        \E env \in BundleEnvs(b) :
        \E r \in {batch_edit(tree, b, filter, env)} :
          LET post == [nodes |-> r.nodes, index |-> r.index, hashes |-> r.hashes]
          IN /\ Fits(cfg, r.nodes)
             /\ tree' = Swap(tree, post, r.err)
             /\ last' = [Call("batch_edit", tree, post, r.err) EXCEPT
                            !.filter = filter, !.env = env, !.bundleIn = b,
                            !.bundleOut = r.bundle, !.removed = r.removed,
                            !.added = r.added, !.updated = r.updated,
                            !.restarts = r.restarts]
             /\ wide' = Spend(b)
             /\ UNCHANGED cfg

RekeyLeaf ==
    /\ pc = "idle"
    /\ pc' = "returned"
    /\ Budget
    /\ \E li \in 0..(Slots(cfg) - 1), leaf \in Pool(cfg), env \in Envs :
      \E r \in {rekey_leaf(tree, li, leaf, env)} :
        LET post == [nodes |-> r.nodes, index |-> r.index, hashes |-> r.hashes]
        IN /\ AnyLeaf(cfg) \/ leaf = Canon(li)
           /\ tree' = Swap(tree, post, r.err)
           /\ last' = [Call("rekey_leaf", tree, post, r.err) EXCEPT
                          !.env = env, !.arg = li, !.leaf = leaf]
           /\ wide' = IF cfg = "search" THEN wide + 1 ELSE wide
           /\ UNCHANGED cfg

ApplyUpdatePath ==
    /\ pc = "idle"
    /\ pc' = "returned"
    /\ Budget
    /\ PathBudget
    /\ \E sender \in 0..(Slots(cfg) - 1), leaf \in Pool(cfg), env \in Envs :
      \E pk \in PathKeys(cfg, sender) :
      \E r \in {apply_update_path(tree, sender,
                                    ValidatedUpdatePath(tree.nodes, sender, leaf, pk), env)} :
        LET post == [nodes |-> r.nodes, index |-> r.index, hashes |-> r.hashes]
            up == IF is_leaf_at(tree.nodes, sender)
                  THEN ValidatedUpdatePath(tree.nodes, sender, leaf, pk)
                  ELSE [leaf_node |-> leaf, nodes |-> <<>>]
        IN /\ AnyLeaf(cfg) \/ leaf = Canon(sender)
           /\ tree' = Swap(tree, post, r.err)
           /\ last' = [Call("apply_update_path", tree, post, r.err) EXCEPT
                          !.env = env, !.arg = sender, !.leaf = leaf,
                          !.path = up.nodes]
           /\ wide' = Walked(r.err)
           /\ UNCHANGED cfg

\* derive builds the creator's trees; the run starts from the public one
Derive ==
    /\ pc = "idle"
    /\ pc' = "returned"
    /\ tree = EmptyTree
    /\ \E leaf \in Pool(cfg), secret_key \in 1..MaxKey, env \in Envs :
      \E r \in {derive(leaf, secret_key, env)} :
        LET post == [nodes |-> r.nodes, index |-> r.index, hashes |-> r.hashes]
        IN /\ cfg = "ident" \/ leaf = Canon(0)
           /\ tree' = Swap(tree, post, r.err)
           /\ last' = [Call("derive", tree, post, r.err) EXCEPT
                          !.env = env, !.arg = secret_key, !.leaf = leaf,
                          !.added = IF r.err = NoErr THEN <<0>> ELSE <<>>,
                          !.priv = r.priv]
           /\ UNCHANGED <<cfg, wide>>

\* tree_hash takes &mut self: the cache it leaves is the tree's, Ok or not
TreeHash ==
    /\ pc = "idle"
    /\ pc' = "returned"
    /\ \E hashFail \in BOOLEAN :
      \E r \in {tree_hash(tree, [NormalEnv EXCEPT !.hashFail = hashFail])} :
        /\ tree' = [tree EXCEPT !.hashes = r.hashes]
        /\ last' = [Call("tree_hash", tree, [tree EXCEPT !.hashes = r.hashes], r.err)
                       EXCEPT !.env = [NormalEnv EXCEPT !.hashFail = hashFail],
                              !.hash = r.hash]
        /\ UNCHANGED <<cfg, wide>>

\* the tree is exported and the export imported into a tree of its own
ImportExport ==
    /\ pc = "idle"
    /\ pc' = "returned"
    /\ \E env \in {NormalEnv, [NormalEnv EXCEPT !.failIds = {1}]} :
      \E r \in {import_node_data(export_node_data(tree), env)} :
        /\ last' = [Call("import_node_data", tree,
                         [nodes |-> r.nodes, index |-> r.index, hashes |-> r.hashes],
                         r.err) EXCEPT !.env = env]
        /\ UNCHANGED <<cfg, tree, wide>>

\* the caller has consumed the result and the bundle of the call
Resume ==
    /\ pc = "returned"
    /\ pc' = "idle"
    /\ last' = Call("new", tree, tree, NoErr)
    /\ UNCHANGED <<cfg, tree, wide>>

Next == AddLeaves \/ BatchEdit \/ RekeyLeaf \/ ApplyUpdatePath \/ TreeHash \/ ImportExport
           \/ Derive \/ Resume

Spec == InitIdent /\ [][Next]_vars

SpecShape == InitShape /\ [][Next]_vars

\* runs made of add_leaves and batch_edit calls only
NextEdits == AddLeaves \/ BatchEdit \/ Resume

SpecEdits == InitShape /\ [][NextEdits]_vars

\* compute_original_hashes takes &self: the tree stays as it is
ComputeOriginalHashes ==
    /\ pc = "idle"
    /\ pc' = "returned"
    /\ tree.nodes # <<>>
    /\ \E r \in {compute_original_hashes(tree)} :
         last' = [Call("compute_original_hashes", tree, tree, r.err) EXCEPT
                     !.original = r.hashes]
    /\ UNCHANGED <<cfg, tree, wide>>

\* a tree is built from the exported nodes of this one and the run goes on with
\* it: its hash cache starts empty
ImportNodeData ==
    /\ pc = "idle"
    /\ pc' = "returned"
    /\ tree.hashes # <<>>
    /\ \E r \in {import_node_data(export_node_data(tree), NormalEnv)} :
        LET post == [nodes |-> r.nodes, index |-> r.index, hashes |-> r.hashes]
        IN /\ tree' = Swap(tree, post, r.err)
           /\ last' = Call("import_node_data", tree, post, r.err)
    /\ UNCHANGED <<cfg, wide>>

\* runs made of add_leaves, import_node_data and tree_hash calls
NextCache == AddLeaves \/ ImportNodeData \/ TreeHash \/ Resume

SpecCache == InitIdent /\ [][NextCache]_vars

\* runs made of add_leaves, batch_edit, apply_update_path and
\* compute_original_hashes calls
NextPath == AddLeaves \/ BatchEdit \/ ApplyUpdatePath \/ ComputeOriginalHashes \/ Resume

SpecPath == InitPath /\ [][NextPath]_vars

---------------------------------------------------------------------------
(* The "search" universe: one batch_edit made of Updates only, on the tree *)
(* add_leaves builds from MaxSearch leaves with values of their own.       *)

SearchLeaves == [k \in 1..MaxSearch |-> Leaf(k, k, k)]

\* the tree after new() and add_leaves(SearchLeaves)
SearchTree ==
    LET r == add_leaves(EmptyTree, SearchLeaves, NormalEnv)
    IN [nodes |-> r.nodes, index |-> r.index, hashes |-> r.hashes]

\* the members named in a bundle, each once, in any order
SenderOrders ==
    {o \in UNION {[1..n -> 0..(MaxSearch - 1)] : n \in 1..MaxSearch} :
        \A i, j \in DOMAIN o : i # j => o[i] # o[j]}

\* what an Update brings: an HPKE key, a signature key, by value or by reference
SearchChoices(filter) == (1..MaxSearch) \X (1..MaxSearch) \X Flags(filter)

\* Updates from the members o names, which keep their identity
SearchBundle(o, c) ==
    Bundle(<<>>,
           [i \in 1..Len(o) |-> Up(o[i], Leaf(o[i] + 1, c[i][1], c[i][2]), c[i][3])],
           <<>>)

InitSearch ==
    /\ cfg = "search"
    /\ tree = SearchTree
    /\ last = Call("new", SearchTree, SearchTree, NoErr)
    /\ pc = "idle"
    /\ wide = 0

BatchEditSearch ==
    /\ cfg = "search"
    /\ pc = "idle"
    /\ pc' = "returned"
    /\ wide = 0
    /\ \E filter \in BOOLEAN, o \in SenderOrders :
      \E c \in [1..Len(o) -> SearchChoices(filter)] :
        \E r \in {batch_edit(tree, SearchBundle(o, c), filter, NormalEnv)} :
          LET post == [nodes |-> r.nodes, index |-> r.index, hashes |-> r.hashes]
          IN /\ tree' = Swap(tree, post, r.err)
             /\ last' = [Call("batch_edit", tree, post, r.err) EXCEPT
                            !.filter = filter, !.bundleIn = SearchBundle(o, c),
                            !.bundleOut = r.bundle, !.removed = r.removed,
                            !.added = r.added, !.updated = r.updated,
                            !.restarts = r.restarts]
             /\ wide' = wide + 1
             /\ UNCHANGED cfg

NextSearch == BatchEditSearch

SpecSearch == InitSearch /\ [][NextSearch]_vars

\* runs of MaxSearchCalls calls on that tree: rekey_leaf and apply_update_path,
\* after the batch_edit of Updates or without it
NextReplace == BatchEditSearch \/ RekeyLeaf \/ ApplyUpdatePath \/ Resume

SpecReplace == InitSearch /\ [][NextReplace]_vars

---------------------------------------------------------------------------
(* The "sender" universe: one batch_edit on the tree of the "search"       *)
(* universe, with at most one Remove and one to MaxSender Updates of which *)
(* at least one comes from a sender that is no member.                     *)

MaxSender == 3

\* the senders of the Updates of a bundle; -1 stands for a sender that is not
\* Sender::Member
SenderLists ==
    {o \in UNION {[1..n -> -1..(MaxSearch - 1)] : n \in 1..MaxSender} :
        \E i \in DOMAIN o : o[i] = -1}

\* what an Update brings: a key number, by value or by reference
SenderChoices(filter) == (1..2) \X Flags(filter)

\* the identity an Update of sender s carries
SenderId(s) == IF s < 0 THEN 1 ELSE s + 1

SenderRemoves == {<<>>} \cup {<<Rm(t, FALSE)>> : t \in 0..(MaxSearch - 1)}

SenderBundle(r, o, c) ==
    Bundle(r,
           [i \in 1..Len(o) |-> Up(o[i], Leaf(SenderId(o[i]), c[i][1], c[i][1]), c[i][2])],
           <<>>)

InitSender ==
    /\ cfg = "sender"
    /\ tree = SearchTree
    /\ last = Call("new", SearchTree, SearchTree, NoErr)
    /\ pc = "idle"
    /\ wide = 0

BatchEditSender ==
    /\ cfg = "sender"
    /\ pc = "idle"
    /\ pc' = "returned"
    /\ \E filter \in BOOLEAN, o \in SenderLists, rm \in SenderRemoves :
      \E c \in [1..Len(o) -> SenderChoices(filter)] :
        \E r \in {batch_edit(tree, SenderBundle(rm, o, c), filter, NormalEnv)} :
          LET post == [nodes |-> r.nodes, index |-> r.index, hashes |-> r.hashes]
          IN /\ tree' = Swap(tree, post, r.err)
             /\ last' = [Call("batch_edit", tree, post, r.err) EXCEPT
                            !.filter = filter, !.bundleIn = SenderBundle(rm, o, c),
                            !.bundleOut = r.bundle, !.removed = r.removed,
                            !.added = r.added, !.updated = r.updated,
                            !.restarts = r.restarts]
             /\ UNCHANGED <<cfg, wide>>

NextSender == BatchEditSender

SpecSender == InitSender /\ [][NextSender]_vars

---------------------------------------------------------------------------
(* Client::new (client.rs).  The "client" universe draws the arguments of  *)
(* one construction; last holds them and, after the call, its result.      *)

\* the curves a signature key can be on
Curves == {"P256", "Ed25519", "P521"}

\* the distinct key pairs drawn per curve
MaxPair == 2

CipherSuites == {"Curve25519Aes128V1", "P256Aes128V1", "P521Aes256V1"}

\* Curve::from(cipher_suite.signature_scheme())
signature_curve(cipher_suite) ==
    CASE cipher_suite = "Curve25519Aes128V1" -> "Ed25519"
      [] cipher_suite = "P256Aes128V1" -> "P256"
      [] OTHER -> "P521"

\* SecretKey: its curve and which key pair of that curve it belongs to
SecretKeys == [curve : Curves, pair : 1..MaxPair]

\* SecretKey::to_public; keyFail is the key library refusing the conversion
to_public(signature_key, env) ==
    IF env.keyFail THEN [err |-> Err("EcKeyError", 0), pk |-> 0]
    ELSE [err |-> NoErr, pk |-> [curve |-> signature_key.curve, pair |-> signature_key.pair]]

\* a credential is made for a public key
Credentials == [pk : [curve : Curves, pair : 1..MaxPair]]

\* Credential::public_key; credFail is a credential whose key cannot be read
public_key(credential, env) ==
    IF env.credFail THEN [err |-> Err("CredentialError", 0), pk |-> 0]
    ELSE [err |-> NoErr, pk |-> credential.pk]

CapabilitiesDefault == [default |-> TRUE]

NoClient == [cipher_suite |-> "", signature_key |-> 0, credential |-> 0,
             capabilities |-> 0, config |-> 0]

\* defect variant of the key comparison: two keys on the same curve pass for equal
KeysDifferByCurve(cpk, spk) ==
    IF cpk.err # NoErr THEN cpk.err
    ELSE IF spk.err # NoErr THEN spk.err
    ELSE IF cpk.pk.curve # spk.pk.curve THEN Err("IncorrectSecretKey", 0)
    ELSE NoErr

\* lines 57-59: credential.public_key()? != signature_key.to_public()?
KeysDiffer(cpk, spk) ==
    IF cpk.err # NoErr THEN cpk.err
    ELSE IF spk.err # NoErr THEN spk.err
    ELSE IF cpk.pk # spk.pk THEN Err("IncorrectSecretKey", 0)
    ELSE NoErr

\* lines 61-67
ClientBuilt(e, cipher_suite, signature_key, credential, config) ==
    IF e # NoErr THEN [err |-> e, client |-> NoClient]
    ELSE [err |-> NoErr,
          client |-> [cipher_suite |-> cipher_suite, signature_key |-> signature_key,
                      credential |-> credential, capabilities |-> CapabilitiesDefault,
                      config |-> config]]

\* lines 47-68
Client_new(cipher_suite, signature_key, credential, config, env) ==
    IF signature_key.curve # signature_curve(cipher_suite)
    THEN [err |-> Err("SignatureCipherSuiteMismatch", 0), client |-> NoClient]
    ELSE ClientBuilt(KeysDiffer(public_key(credential, env), to_public(signature_key, env)),
                     cipher_suite, signature_key, credential, config)

ClientEnvs == [keyFail : BOOLEAN, credFail : BOOLEAN]

ClientArgs(cs, sk, cred, config, env) ==
    [op |-> "args", cipher_suite |-> cs, signature_key |-> sk, credential |-> cred,
     config |-> config, env |-> env, err |-> NoErr, client |-> NoClient]

InitClient ==
    /\ cfg = "client"
    /\ tree = EmptyTree
    /\ pc = "idle"
    /\ wide = 0
    /\ last \in {ClientArgs(cs, sk, cred, config, env) :
                    cs \in CipherSuites, sk \in SecretKeys, cred \in Credentials,
                    config \in {"default"}, env \in ClientEnvs}

ClientNew ==
    /\ cfg = "client"
    /\ pc = "idle"
    /\ pc' = "returned"
    /\ \E r \in {Client_new(last.cipher_suite, last.signature_key, last.credential,
                               last.config, last.env)} :
          last' = [last EXCEPT !.op = "Client::new", !.err = r.err, !.client = r.client]
    /\ UNCHANGED <<cfg, tree, wide>>

NextClient == ClientNew

SpecClient == InitClient /\ [][NextClient]_vars

---------------------------------------------------------------------------
(* What the claims speak about.                                            *)

Returned(op) == pc = "returned" /\ last.op = op
Ok == last.err = NoErr

LeafAt(nodes, li) == At(nodes, 2 * li).leaf

\* the nodes above leaf li, whatever the size of the tree
Ancestors(li, len) == {n \in 0..(len - 1) : n % 2 = 1 /\ subtree(n).lo <= li /\ li <= subtree(n).hi}

\* Remove(li) applied to a node array: the leaf and its ancestors are blank
RefRemove(nodes, li) ==
    [p \in 1..Len(nodes) |->
        IF p - 1 = 2 * li \/ (p - 1) \in Ancestors(li, Len(nodes)) THEN Blank ELSE nodes[p]]

\* Update(li, leaf) applied: the new leaf in place, its ancestors blank
RefUpdate(nodes, li, leaf) ==
    [p \in 1..Len(nodes) |->
        IF p - 1 = 2 * li THEN LeafN(leaf)
        ELSE IF (p - 1) \in Ancestors(li, Len(nodes)) THEN Blank ELSE nodes[p]]

\* Add(leaf) applied: the leaf in the lowest blank slot, or one slot past the end,
\* and its index at the end of the unmerged list of each non-blank ancestor
RefAdd(nodes, leaf) ==
    LET slots == (Len(nodes) + 1) \div 2
        blanks == {li \in 0..(slots - 1) : nodes[2 * li + 1].t = "B"}
        li == IF blanks = {} THEN slots ELSE CHOOSE x \in blanks : \A y \in blanks : x <= y
        len == IF 2 * li + 1 > Len(nodes) THEN 2 * li + 1 ELSE Len(nodes)
    IN [p \in 1..len |->
          IF p - 1 = 2 * li THEN LeafN(leaf)
          ELSE IF p > Len(nodes) THEN Blank
          ELSE IF nodes[p].t = "P" /\ (p - 1) \in Ancestors(li, len)
          THEN [nodes[p] EXCEPT !.um = Append(@, li)]
          ELSE nodes[p]]

RECURSIVE RefRemoves(_, _, _)
RefRemoves(nodes, rs, i) ==
    IF i > Len(rs) THEN nodes ELSE RefRemoves(RefRemove(nodes, rs[i].to_remove), rs, i + 1)

RECURSIVE RefUpdates(_, _, _)
RefUpdates(nodes, us, i) ==
    IF i > Len(us) THEN nodes
    ELSE RefUpdates(RefUpdate(nodes, us[i].sender, us[i].leaf), us, i + 1)

RECURSIVE RefAdds(_, _, _)
RefAdds(nodes, as, i) ==
    IF i > Len(as) THEN nodes ELSE RefAdds(RefAdd(nodes, as[i].leaf), as, i + 1)

RECURSIVE RefTrim(_)
RefTrim(nodes) ==
    IF nodes # <<>> /\ nodes[Len(nodes)] = Blank
    THEN RefTrim([p \in 1..(Len(nodes) - 1) |-> nodes[p]]) ELSE nodes

\* the tree with every proposal of bundle b applied
RefApply(nodes, b) ==
    RefTrim(RefAdds(RefUpdates(RefRemoves(nodes, b.removes, 1), b.updates, 1), b.adds, 1))

\* s is t with some positions left out
RECURSIVE IsSubseq(_, _)
IsSubseq(s, t) ==
    IF s = <<>> THEN TRUE
    ELSE IF t = <<>> THEN FALSE
    ELSE IF Head(s) = Head(t) THEN IsSubseq(Tail(s), Tail(t))
    ELSE IsSubseq(s, Tail(t))

AllByReference(b) ==
    /\ \A i \in 1..Len(b.removes) : ~b.removes[i].byval
    /\ \A i \in 1..Len(b.updates) : ~b.updates[i].byval
    /\ \A i \in 1..Len(b.adds) : ~b.adds[i].byval

ByValue(s) == SelectSeq(s, LAMBDA p : p.byval)

\* C1: under clone-before-edit, after a strict batch_edit the authoritative tree
\* is the tree with every proposal of the bundle applied (the call returned Ok)
\* or exactly the tree from before the call (the call returned an error, also a
\* provider's), never the partially edited clone.
C1_Atomic ==
    (Returned("batch_edit") /\ ~last.filter) =>
        \/ Ok /\ tree.nodes = RefApply(last.pre.nodes, last.bundleIn)
        \/ ~Ok /\ tree = last.pre

\* a provider failed after the clone had been edited, and the tree is untouched
C1_Witness ==
    /\ Returned("batch_edit") /\ ~last.filter
    /\ last.err.k \in {"IdentityProviderError", "CryptoProviderError"}
    /\ last.post.nodes # last.pre.nodes
    /\ tree = last.pre

\* C2 as stated: a strict batch_edit that returns an error has left the node
\* array of the tree it ran on as it was before the call.
C2_Unchanged ==
    (Returned("batch_edit") /\ ~last.filter /\ ~Ok) => last.post.nodes = last.pre.nodes

\* the first proposal to be processed is rejected before anything is written: a
\* Remove of a leaf that is blank or out of range or, in a bundle without
\* Removes, an Update whose sender is no member or has no leaf in the tree
FirstRejected ==
    LET b == last.bundleIn IN
    \/ /\ Len(b.removes) > 0
       /\ ~is_leaf_at(last.pre.nodes, b.removes[1].to_remove)
    \/ /\ Len(b.removes) = 0 /\ Len(b.updates) > 0
       /\ \/ b.updates[1].sender < 0
          \/ ~is_leaf_at(last.pre.nodes, b.updates[1].sender)

\* C2 amended: a strict batch_edit that returns an error leaves the authoritative
\* tree as it was, through the clone; the tree it ran on is itself as before the
\* call when the first processed proposal is rejected before anything is written,
\* and such a call does return an error.
C2_RejectedFirst ==
    (Returned("batch_edit") /\ ~last.filter) =>
        /\ ~Ok => tree.nodes = last.pre.nodes
        /\ FirstRejected => (~Ok /\ last.post = last.pre)

\* a rejected first Remove with a second, applicable Remove behind it
C2_Witness ==
    /\ Returned("batch_edit") /\ ~last.filter /\ FirstRejected
    /\ Len(last.bundleIn.removes) = 2
    /\ is_leaf_at(last.pre.nodes, last.bundleIn.removes[2].to_remove)

\* C3: in filter mode a bundle of by-reference proposals never makes batch_edit
\* fail (identity lookups and hashing succeeding): what cannot be applied is
\* dropped from the bundle and the call returns Ok.
C3_FilterDrops ==
    (Returned("batch_edit") /\ last.filter /\ AllByReference(last.bundleIn)
        /\ last.env.failIds = {} /\ ~last.env.hashFail) => Ok

\* C4: a filter-mode batch_edit that returns Ok has kept every by-value
\* proposal in the bundle.
C4_ByValueKept ==
    (Returned("batch_edit") /\ last.filter /\ Ok) =>
        /\ ByValue(last.bundleOut.removes) = ByValue(last.bundleIn.removes)
        /\ ByValue(last.bundleOut.updates) = ByValue(last.bundleIn.updates)
        /\ ByValue(last.bundleOut.adds) = ByValue(last.bundleIn.adds)

\* C5: no two occupied leaves of the tree share an identity, an HPKE key or a
\* signature key.
C5_Unique ==
    \A i, j \in non_empty_leaves(tree.nodes) :
        i # j => /\ LeafAt(tree.nodes, i).id # LeafAt(tree.nodes, j).id
                 /\ LeafAt(tree.nodes, i).hpke # LeafAt(tree.nodes, j).hpke
                 /\ LeafAt(tree.nodes, i).sig # LeafAt(tree.nodes, j).sig

\* C6: when batch_edit returns Ok the bundle holds the applied proposals in their
\* original order, removed and added list them in bundle order, the added leaves
\* and the updates' new leaves sit where the output says, and the tree is the old
\* tree with exactly the remaining proposals applied.
C6_Output ==
    (Returned("batch_edit") /\ Ok) =>
        LET b == last.bundleOut IN
        /\ IsSubseq(b.removes, last.bundleIn.removes)
        /\ IsSubseq(b.updates, last.bundleIn.updates)
        /\ IsSubseq(b.adds, last.bundleIn.adds)
        /\ Len(last.removed) = Len(b.removes)
        /\ \A k \in 1..Len(b.removes) :
              /\ last.removed[k][1] = b.removes[k].to_remove
              /\ last.removed[k][2] = LeafAt(last.pre.nodes, b.removes[k].to_remove)
        /\ Len(last.added) = Len(b.adds)
        /\ \A k \in 1..Len(b.adds) :
              At(last.post.nodes, 2 * last.added[k]) = LeafN(b.adds[k].leaf)
        /\ \A k \in 1..Len(b.updates) :
              At(last.post.nodes, 2 * b.updates[k].sender) = LeafN(b.updates[k].leaf)
        /\ last.post.nodes = RefApply(last.pre.nodes, b)

\* a filter-mode edit that dropped one proposal and applied the other
C6_Witness ==
    /\ Returned("batch_edit") /\ Ok /\ last.filter
    /\ BundleSize(last.bundleIn) = 2 /\ BundleSize(last.bundleOut) = 1
    /\ last.post.nodes # last.pre.nodes

\* C7: after a successful batch_edit or add_leaves the node array is empty, or
\* has odd length and ends in an occupied leaf.
C7_Trimmed ==
    ((Returned("batch_edit") \/ Returned("add_leaves")) /\ Ok) =>
        \/ last.post.nodes = <<>>
        \/ /\ Len(last.post.nodes) % 2 = 1
           /\ last.post.nodes[Len(last.post.nodes)].t = "L"

\* a batch_edit that removed the last leaves and left a shorter, non-empty array
C7_Witness ==
    /\ Returned("batch_edit") /\ Ok
    /\ Len(last.post.nodes) > 0
    /\ Len(last.post.nodes) + 2 < Len(last.pre.nodes)

Parents(nodes) == {n \in 0..(Len(nodes) - 1) : nodes[n + 1].t = "P"}

IsIncreasing(s) == \A k \in 1..(Len(s) - 1) : s[k] < s[k + 1]

\* C8: the unmerged list of every non-blank parent is strictly increasing and
\* names only leaves of the parent's subtree.
C8_Sorted ==
    \A n \in Parents(tree.nodes) :
        LET um == tree.nodes[n + 1].um IN
        /\ IsIncreasing(um)
        /\ \A k \in 1..Len(um) : subtree(n).lo <= um[k] /\ um[k] <= subtree(n).hi

\* a parent with two unmerged leaves
C8_Witness ==
    \E n \in Parents(tree.nodes) : Len(tree.nodes[n + 1].um) >= 2

\* the non-blank parents strictly between leaf u and parent p
Between(nodes, u, p) ==
    {q \in Parents(nodes) : q \in Ancestors(u, Len(nodes)) /\ level(q) < level(p)}

\* C9 as stated: no unmerged leaf of a parent p has a non-blank parent between
\* itself and p.
C9_NoneBetween ==
    \A p \in Parents(tree.nodes) :
        \A u \in Range(tree.nodes[p + 1].um) : Between(tree.nodes, u, p) = {}

\* C9 amended: every non-blank parent between an unmerged leaf of p and p
\* lists that leaf as unmerged too.
C9_ListedBelow ==
    \A p \in Parents(tree.nodes) :
        \A u \in Range(tree.nodes[p + 1].um) :
            \A q \in Between(tree.nodes, u, p) : u \in Range(tree.nodes[q + 1].um)

\* a leaf unmerged at two non-blank ancestors
C9_Witness ==
    \E p \in Parents(tree.nodes) :
        \E u \in Range(tree.nodes[p + 1].um) :
            \E q \in Between(tree.nodes, u, p) : u \in Range(tree.nodes[q + 1].um)

NodeOr(nodes, n) == IF n < Len(nodes) THEN nodes[n + 1] ELSE Blank

\* the nodes of the arrays before and after the call that lie above leaf li
PathOf(li) ==
    Ancestors(li, IF Len(last.pre.nodes) > Len(last.post.nodes)
                  THEN Len(last.pre.nodes) ELSE Len(last.post.nodes))

\* the direct paths of the Removes and Updates that stayed in the bundle
AppliedPaths ==
    UNION ({PathOf(last.bundleOut.removes[k].to_remove) :
               k \in 1..Len(last.bundleOut.removes)}
           \cup {PathOf(last.bundleOut.updates[k].sender) :
                    k \in 1..Len(last.bundleOut.updates)})

\* the Updates of a member that left the bundle
Dropped ==
    {d \in Range(last.bundleIn.updates) :
        d \notin Range(last.bundleOut.updates) /\ d.sender >= 0}

PathsBlank == \A n \in AppliedPaths : NodeOr(last.post.nodes, n) = Blank

\* the node with the leaves the call added below it appended to its unmerged list
WithAdded(node, n) ==
    IF node.t = "P"
    THEN [node EXCEPT !.um = @ \o SelectSeq(last.added,
                                      LAMBDA a : subtree(n).lo <= a /\ a <= subtree(n).hi)]
    ELSE node

\* C10 as stated: after a successful batch_edit the direct path of every applied
\* Remove and Update is blank, and the direct path of a dropped Update's sender
\* is as it was before the call.
C10_DroppedUntouched ==
    (Returned("batch_edit") /\ Ok) =>
        /\ PathsBlank
        /\ \A d \in Dropped : \A n \in PathOf(d.sender) :
              NodeOr(last.post.nodes, n) = NodeOr(last.pre.nodes, n)

\* C10 amended: after a successful batch_edit the direct path of every applied
\* Remove and Update is blank; a node on the direct path of a dropped Update's
\* sender is blank where an applied Remove or Update passes through it, and
\* elsewhere is as before the call with the added leaves below it appended to
\* its unmerged list.
C10_PathsBlank ==
    (Returned("batch_edit") /\ Ok) =>
        /\ PathsBlank
        /\ \A d \in Dropped : \A n \in PathOf(d.sender) :
              NodeOr(last.post.nodes, n) =
                  IF n \in AppliedPaths THEN Blank
                  ELSE WithAdded(NodeOr(last.pre.nodes, n), n)

\* a dropped Update whose sender lost a parent to another proposal of the batch
C10_Witness ==
    /\ Returned("batch_edit") /\ Ok
    /\ \E d \in Dropped : \E n \in PathOf(d.sender) :
          /\ NodeOr(last.pre.nodes, n).t = "P"
          /\ NodeOr(last.post.nodes, n) = Blank

---------------------------------------------------------------------------
(* The hash of node n as the tree's contents define it.                    *)

RECURSIVE RefHash(_, _)
RefHash(nodes, n) ==
    IF n % 2 = 0 THEN hash_for_leaf(n \div 2, At(nodes, n))
    ELSE hash_for_parent(At(nodes, n),
                         RefHash(nodes, n - Pow2(level(n) - 1)),
                         RefHash(nodes, n + Pow2(level(n) - 1)))

RootOf(nodes) == root(total_leaf_count(nodes))

\* C11: once tree_hash has returned Ok, every entry of the cache is the hash of
\* its node computed from the tree as it stands, and the value returned is the
\* root's; nothing cached before a mutation of a node comes back after it.
C11_HashesCurrent ==
    Returned("tree_hash") /\ Ok =>
        /\ Len(tree.hashes) = 2 * total_leaf_count(tree.nodes) - 1
        /\ \A n \in 0..(Len(tree.hashes) - 1) : tree.hashes[n + 1] = RefHash(tree.nodes, n)
        /\ last.hash = RefHash(tree.nodes, RootOf(tree.nodes))

\* the cache a full computation over the tree's contents gives
Regenerated(nodes) ==
    [i \in 1..(2 * total_leaf_count(nodes) - 1) |-> RefHash(nodes, i - 1)]

\* C12: a hash provider failing inside tree_hash leaves the cache either as it
\* was before the call or fully regenerated, and a tree_hash that returns Ok
\* never returns a default (empty) hash.
C12_CacheValid ==
    /\ Returned("tree_hash") /\ ~Ok =>
           tree.hashes = last.pre.hashes \/ tree.hashes = Regenerated(tree.nodes)
    /\ Returned("tree_hash") /\ Ok => last.hash # DefaultHash

\* C13: exporting the node data of a tree and importing it again succeeds and
\* gives a tree with the same node array and the same index.
C13_RoundTrip ==
    Returned("import_node_data") /\ last.env = NormalEnv =>
        /\ Ok
        /\ last.post.nodes = tree.nodes
        /\ last.post.index = tree.index

\* what batch_edit in strict mode makes of the bundle a filtering call left
Rerun == batch_edit(last.pre, last.bundleOut, FALSE, last.env)

SameAsRerun(r) ==
    /\ r.err = NoErr
    /\ r.bundle = last.bundleOut
    /\ r.nodes = last.post.nodes
    /\ r.removed = last.removed
    /\ r.added = last.added

\* C14: when batch_edit with filter = true succeeds on T and leaves the bundle
\* B', batch_edit with filter = false on T and B' succeeds too, leaves B' as it
\* is, and gives the same node array and the same output (removed, added).
C14_FilterIdempotent ==
    Returned("batch_edit") /\ last.filter /\ Ok => SameAsRerun(Rerun)

\* the occupied leaves that list pt among their capabilities
Declaring(nodes, pt) ==
    {li \in non_empty_leaves(nodes) : pt \in At(nodes, 2 * li).leaf.proposals}

\* C15: after a successful add_leaves or batch_edit, can_support_proposal(pt) is
\* true exactly when every occupied leaf lists pt in its capabilities, and the
\* index's counter of pt is the number of occupied leaves declaring pt.
C15_Support ==
    (Returned("add_leaves") \/ Returned("batch_edit")) /\ Ok =>
        \A pt \in ProposalTypes :
            /\ can_support_proposal(tree, pt)
                   <=> Declaring(tree.nodes, pt) = non_empty_leaves(tree.nodes)
            /\ count_supporting_proposal(tree.index, pt)
                   = Cardinality(Declaring(tree.nodes, pt))

\* a call with working providers whose bundle holds one Remove, of an occupied
\* leaf
OneRemove ==
    /\ Returned("batch_edit") /\ last.env = NormalEnv
    /\ Len(last.bundleIn.removes) = 1
    /\ is_leaf_at(last.pre.nodes, last.bundleIn.removes[1].to_remove)

Removed1 == last.bundleIn.removes[1].to_remove

\* the Update of the bundle comes from the leaf the Remove removes
UpdateOfRemoved ==
    /\ OneRemove
    /\ Len(last.bundleIn.updates) = 1
    /\ last.bundleIn.updates[1].sender = Removed1

\* the Add of the bundle brings back the very leaf node the Remove removes
AddOfRemoved ==
    /\ OneRemove
    /\ last.bundleIn.updates = <<>>
    /\ Len(last.bundleIn.adds) = 1
    /\ last.bundleIn.adds[1].leaf = At(last.pre.nodes, 2 * Removed1).leaf

\* the lowest slot that is blank once the Remove is done
FreedSlot ==
    CHOOSE li \in 0..Removed1 :
        /\ li = Removed1 \/ ~is_leaf_at(last.pre.nodes, li)
        /\ \A o \in 0..(li - 1) : is_leaf_at(last.pre.nodes, o)

OneProposal == Returned("batch_edit") /\ BundleSize(last.bundleIn) = 1

\* the lookup of the identity of a leaf the tree holds fails: the leaf a Remove
\* takes out, or the old leaf of an Update that passed the successor check
OldIdentityFails ==
    /\ OneProposal
    /\ \/ /\ Len(last.bundleIn.removes) = 1
          /\ is_leaf_at(last.pre.nodes, last.bundleIn.removes[1].to_remove)
          /\ LeafAt(last.pre.nodes, last.bundleIn.removes[1].to_remove).id
                 \in last.env.failIds
       \/ /\ Len(last.bundleIn.updates) = 1
          /\ last.bundleIn.updates[1].sender >= 0
          /\ is_leaf_at(last.pre.nodes, last.bundleIn.updates[1].sender)
          /\ valid_successor(LeafAt(last.pre.nodes, last.bundleIn.updates[1].sender),
                             last.bundleIn.updates[1].leaf, last.env) = "true"
          /\ LeafAt(last.pre.nodes, last.bundleIn.updates[1].sender).id
                 \in last.env.failIds

\* valid_successor fails for the Update of the bundle
SuccessorFails ==
    /\ OneProposal
    /\ Len(last.bundleIn.updates) = 1
    /\ last.bundleIn.updates[1].sender >= 0
    /\ is_leaf_at(last.pre.nodes, last.bundleIn.updates[1].sender)
    /\ last.env.succ = "err"

\* the lookup of the identity of the leaf an Add brings fails
AddIdentityFails ==
    /\ OneProposal
    /\ Len(last.bundleIn.adds) = 1
    /\ last.bundleIn.adds[1].leaf.id \in last.env.failIds

\* the one proposal of the bundle is by reference
ByReference1 ==
    \A j \in 1..Len(last.bundleIn.updates \o last.bundleIn.adds) :
        ~(last.bundleIn.updates \o last.bundleIn.adds)[j].byval

LowestBlank(nodes) ==
    LET slots == (Len(nodes) + 1) \div 2
        blanks == {li \in 0..(slots - 1) : nodes[2 * li + 1].t = "B"}
    IN IF blanks = {} THEN slots ELSE CHOOSE x \in blanks : \A y \in blanks : x <= y

RECURSIVE RefSlots(_, _, _)
\* the slots the adds as[i..] take, one after the other
RefSlots(nodes, as, i) ==
    IF i > Len(as) THEN <<>>
    ELSE <<LowestBlank(nodes)>> \o RefSlots(RefAdd(nodes, as[i].leaf), as, i + 1)

\* the node array the Adds of the last batch_edit found
BeforeAdds ==
    RefUpdates(RefRemoves(last.pre.nodes, last.bundleOut.removes, 1),
               last.bundleOut.updates, 1)

\* C18: every applied Add, of add_leaves and of batch_edit, goes to the lowest
\* blank leaf of the tree at that moment, or directly after the last leaf when
\* none is blank, so the indices one call returns are strictly increasing.
C18_LowestBlank ==
    /\ Returned("add_leaves") /\ Ok =>
           /\ last.added = RefSlots(last.pre.nodes, last.bundleIn.adds, 1)
           /\ IsIncreasing(last.added)
    /\ Returned("batch_edit") /\ Ok =>
           /\ last.added = RefSlots(BeforeAdds, last.bundleOut.adds, 1)
           /\ IsIncreasing(last.added)

\* one call fills the blank at leaf 0 and then appends
C18_Witness ==
    /\ (Returned("add_leaves") \/ Returned("batch_edit")) /\ Ok
    /\ Len(last.added) = 2
    /\ last.added[1] = 0
    /\ Len(last.pre.nodes) >= 3
    /\ last.added[2] = (Len(last.pre.nodes) + 1) \div 2

\* a successful call that applied one Add and nothing else
OneAdd ==
    /\ Ok
    /\ Len(last.added) = 1
    /\ \/ Returned("add_leaves") /\ Len(last.bundleIn.adds) = 1
       \/ /\ Returned("batch_edit")
          /\ last.bundleOut.removes = <<>> /\ last.bundleOut.updates = <<>>
          /\ Len(last.bundleOut.adds) = 1

AddedLeaf ==
    IF last.op = "add_leaves" THEN last.bundleIn.adds[1].leaf
    ELSE last.bundleOut.adds[1].leaf

\* node n after the Add of a leaf at slot li, as the claim has it
AfterAdd(n, li) ==
    IF n = 2 * li THEN LeafN(AddedLeaf)
    ELSE IF n \in Ancestors(li, Len(last.post.nodes)) /\ At(last.pre.nodes, n).t = "P"
    THEN [At(last.pre.nodes, n) EXCEPT !.um = Append(@, li)]
    ELSE At(last.pre.nodes, n)

\* C19: adding a leaf at slot i appends i to the unmerged list of exactly the
\* non-blank parents on the direct path of i; blank nodes of that path stay
\* blank, and no other node but the new leaf changes.
C19_AddFrame ==
    OneAdd =>
        /\ Len(last.post.nodes) >= Len(last.pre.nodes)
        /\ \A n \in 0..(Len(last.post.nodes) - 1) :
              At(last.post.nodes, n) = AfterAdd(n, last.added[1])

\* the direct path of the added leaf has a parent that records it and a blank
\* node that stays blank, and some parent off the path is left as it was
C19_Witness ==
    /\ OneAdd
    /\ \E n \in Ancestors(last.added[1], Len(last.post.nodes)) :
          At(last.pre.nodes, n).t = "P"
    /\ \E n \in Ancestors(last.added[1], Len(last.post.nodes)) :
          At(last.pre.nodes, n).t = "B"
    /\ \E n \in 0..(Len(last.pre.nodes) - 1) :
          /\ At(last.pre.nodes, n).t = "P"
          /\ n \notin Ancestors(last.added[1], Len(last.post.nodes))

\* ---- C20 ----
\* a proposal the call cannot drop: any proposal of a strict call, a by-value one
\* of a filtering call
Binding(p) == ~last.filter \/ p.byval

\* leaf index li lies beyond the node array the call started from
Beyond(li) == 2 * li >= Len(last.pre.nodes)

\* the Removes before the k-th are applied or dropped without an error: each names
\* an occupied leaf no earlier Remove names and whose identity is found, or is a
\* by-reference Remove of a filtering call
RemovesPass(k) ==
    \A j \in 1..(k - 1) :
        LET r == last.bundleIn.removes[j] IN
        \/ /\ is_leaf_at(last.pre.nodes, r.to_remove)
           /\ LeafAt(last.pre.nodes, r.to_remove).id \notin last.env.failIds
           /\ \A h \in 1..(j - 1) : last.bundleIn.removes[h].to_remove # r.to_remove
        \/ /\ ~Binding(r)
           /\ ~is_leaf_at(last.pre.nodes, r.to_remove)

\* the k-th Remove is binding, names a leaf beyond the tree and is reached
BeyondRemove(k) ==
    /\ k \in 1..Len(last.bundleIn.removes)
    /\ Binding(last.bundleIn.removes[k])
    /\ Beyond(last.bundleIn.removes[k].to_remove)
    /\ RemovesPass(k)

\* the first Update comes from a member whose leaf index lies beyond the tree, and
\* every Remove before it passes
BeyondUpdate ==
    /\ Len(last.bundleIn.updates) > 0
    /\ last.bundleIn.updates[1].sender >= 0
    /\ Binding(last.bundleIn.updates[1])
    /\ Beyond(last.bundleIn.updates[1].sender)
    /\ RemovesPass(Len(last.bundleIn.removes) + 1)

\* some binding Remove or Update of the bundle names a leaf beyond the tree
SomeBeyond ==
    \/ \E k \in 1..Len(last.bundleIn.removes) :
          Binding(last.bundleIn.removes[k]) /\ Beyond(last.bundleIn.removes[k].to_remove)
    \/ \E k \in 1..Len(last.bundleIn.updates) :
          /\ last.bundleIn.updates[k].sender >= 0
          /\ Binding(last.bundleIn.updates[k])
          /\ Beyond(last.bundleIn.updates[k].sender)

\* C20: a by-value Remove or Update that names a leaf index i beyond the tree
\* makes batch_edit fail, in strict and in filter mode, and when it is the
\* proposal the call stops at, the error is InvalidNodeIndex(2*i).
C20_BeyondTree ==
    Returned("batch_edit") =>
        /\ SomeBeyond => ~Ok
        /\ \A k \in 1..Len(last.bundleIn.removes) :
              BeyondRemove(k) =>
                  last.err = Err("InvalidNodeIndex", 2 * last.bundleIn.removes[k].to_remove)
        /\ BeyondUpdate =>
              last.err = Err("InvalidNodeIndex", 2 * last.bundleIn.updates[1].sender)

\* a filtering call with a by-value Remove beyond a non-empty tree, reached after
\* a Remove that was applied
C20_Witness ==
    /\ Returned("batch_edit") /\ last.filter
    /\ Len(last.pre.nodes) > 0
    /\ BeyondRemove(2)
    /\ last.bundleIn.removes[2].byval
    /\ is_leaf_at(last.pre.nodes, last.bundleIn.removes[1].to_remove)
    /\ last.err = Err("InvalidNodeIndex", 2 * last.bundleIn.removes[2].to_remove)

\* a filtering call with a by-value Update from a member beyond the tree
BeyondUpdateReached ==
    /\ Returned("batch_edit") /\ last.filter
    /\ BeyondUpdate
    /\ last.bundleIn.updates[1].byval
    /\ ~Ok

\* ---- C21 ----
\* two leaves share an identity, an HPKE public key or a signature public key
Collide(a, b) == a.id = b.id \/ a.hpke = b.hpke \/ a.sig = b.sig

\* the leaves the bundle of the call wants to add, in order
AddList == [j \in 1..Len(last.bundleIn.adds) |-> last.bundleIn.adds[j].leaf]

\* leaf indices of the starting tree that no Remove and no Update of the bundle names
Untouched ==
    {li \in non_empty_leaves(last.pre.nodes) :
        /\ \A j \in 1..Len(last.bundleIn.removes) : last.bundleIn.removes[j].to_remove # li
        /\ \A j \in 1..Len(last.bundleIn.updates) : last.bundleIn.updates[j].sender # li}

\* the k-th leaf to add collides with an occupied leaf that stays in the tree
HitsTree(k) == \E li \in Untouched : Collide(AddList[k], LeafAt(last.pre.nodes, li))

\* the k-th leaf to add collides with no occupied leaf of the starting tree
ClearOfTree(k) ==
    \A li \in non_empty_leaves(last.pre.nodes) :
        ~Collide(AddList[k], LeafAt(last.pre.nodes, li))

\* the k-th leaf to add collides with a leaf the same call added before it: an
\* earlier leaf of the list that itself collides with nothing before it
HitsEarlier(k) ==
    \E j \in 1..(k - 1) :
        /\ Collide(AddList[k], AddList[j])
        /\ ClearOfTree(j)
        /\ \A h \in 1..(j - 1) : ~Collide(AddList[j], AddList[h])

\* some leaf the call must add (a by-value Add, or any Add of a strict call or of
\* add_leaves) duplicates a value of the tree or of an earlier added leaf
DuplicateAdd ==
    /\ Returned("add_leaves") \/ Returned("batch_edit")
    /\ \E k \in 1..Len(AddList) :
          /\ Binding(last.bundleIn.adds[k])
          /\ HitsTree(k) \/ HitsEarlier(k)

\* the providers answer, and the bundle holds nothing but Adds
AddsOnly ==
    /\ last.env = NormalEnv
    /\ Len(last.bundleIn.removes) = 0
    /\ Len(last.bundleIn.updates) = 0

\* C21: add_leaves, and batch_edit with by-value Adds, fail whenever an added leaf
\* has the identity, HPKE key or signature key of an occupied leaf of the tree or
\* of a leaf added earlier in the same call, and the error is DuplicateLeafData.
C21_Duplicate ==
    DuplicateAdd =>
        /\ ~Ok
        /\ AddsOnly => last.err.k = "DuplicateLeafData"

\* a filtering batch_edit whose second, by-value Add repeats a value of the
\* by-reference Add before it and none of the occupied leaf of the tree
C21_Witness ==
    /\ Returned("batch_edit") /\ last.filter /\ AddsOnly
    /\ non_empty_leaves(last.pre.nodes) # {}
    /\ Len(AddList) = 2
    /\ ~last.bundleIn.adds[1].byval /\ last.bundleIn.adds[2].byval
    /\ HitsEarlier(2) /\ ~HitsTree(2)
    /\ last.err.k = "DuplicateLeafData"

\* ---- C22 ----
\* C22: derive(leaf, secret_key) returns a public tree whose only node is the given
\* leaf at leaf index 0, and a private tree whose self_index is 0 and whose first
\* secret-key entry is the given secret key.
C22_Derive ==
    (Returned("derive") /\ Ok) =>
        /\ last.post.nodes = <<LeafN(last.leaf)>>
        /\ non_empty_leaves(last.post.nodes) = {0}
        /\ last.priv.self_index = 0
        /\ Len(last.priv.secret_keys) >= 1
        /\ last.priv.secret_keys[1] = last.arg
        /\ tree = last.post

\* a derive that returned its two trees, with a secret key other than the leaf's
\* public key value
C22_Witness ==
    /\ Returned("derive") /\ Ok
    /\ last.arg # last.leaf.hpke
    /\ last.priv # NoPrivate

\* ---- C23 ----
\* the call of Client::new has returned
Constructed == cfg = "client" /\ pc = "returned" /\ last.op = "Client::new"

\* the signature key is not on the curve of the cipher suite's signature scheme
CurveMismatch == last.signature_key.curve # signature_curve(last.cipher_suite)

\* both public keys can be read and they are different keys
PublicKeysDiffer ==
    /\ ~last.env.keyFail /\ ~last.env.credFail
    /\ \/ last.credential.pk.curve # last.signature_key.curve
       \/ last.credential.pk.pair # last.signature_key.pair

\* both public keys can be read and they are the same key
PublicKeysMatch ==
    /\ ~last.env.keyFail /\ ~last.env.credFail
    /\ last.credential.pk.curve = last.signature_key.curve
    /\ last.credential.pk.pair = last.signature_key.pair

\* C23: Client::new returns SignatureCipherSuiteMismatch and no client when the
\* key's curve is not the cipher suite's (whatever the credential), IncorrectSecretKey
\* and no client when the curve fits but the credential's public key is not the
\* key's, and otherwise a client holding the given cipher suite, key and credential
\* with default capabilities.
C23_ClientNew ==
    Constructed =>
        /\ CurveMismatch =>
               last.err = Err("SignatureCipherSuiteMismatch", 0) /\ last.client = NoClient
        /\ (~CurveMismatch /\ PublicKeysDiffer) =>
               last.err = Err("IncorrectSecretKey", 0) /\ last.client = NoClient
        /\ (~CurveMismatch /\ PublicKeysMatch) =>
               /\ last.err = NoErr
               /\ last.client.cipher_suite = last.cipher_suite
               /\ last.client.signature_key = last.signature_key
               /\ last.client.credential = last.credential
               /\ last.client.capabilities = CapabilitiesDefault
        /\ last.err # NoErr => last.client = NoClient

\* a key on the cipher suite's curve with a credential made for the other key pair
\* of the same curve
C23_Witness ==
    /\ Constructed /\ ~CurveMismatch /\ PublicKeysDiffer
    /\ last.credential.pk.curve = last.signature_key.curve
    /\ last.err = Err("IncorrectSecretKey", 0)

\* ---- C24 ----
\* the k-th Update of the bundle is staged: its sender's leaf is occupied and not
\* removed by the bundle, the new leaf is a valid successor of it, and no earlier
\* Update took the leaf away
Staged(k) ==
    LET u == last.bundleIn.updates[k] IN
    /\ u.sender >= 0
    /\ is_leaf_at(last.pre.nodes, u.sender)
    /\ \A j \in 1..Len(last.bundleIn.removes) : last.bundleIn.removes[j].to_remove # u.sender
    /\ valid_successor(LeafAt(last.pre.nodes, u.sender), u.leaf, last.env) = "true"
    /\ \A j \in 1..(k - 1) :
          \/ last.bundleIn.updates[j].sender # u.sender
          \/ valid_successor(LeafAt(last.pre.nodes, u.sender),
                             last.bundleIn.updates[j].leaf, last.env) # "true"

\* the k-th Update was staged and is not among the Updates the call kept
DroppedBySearch(k) ==
    /\ Staged(k)
    /\ \A j \in 1..Len(last.bundleOut.updates) :
          last.bundleOut.updates[j].sender # last.bundleIn.updates[k].sender

\* the new leaf of the k-th Update collides with a leaf the final tree holds at
\* another leaf index
BlockedInFinal(k) ==
    \E li \in non_empty_leaves(last.post.nodes) \ {last.bundleIn.updates[k].sender} :
        Collide(last.bundleIn.updates[k].leaf, LeafAt(last.post.nodes, li))

\* the old leaf of the k-th Update is where it was
OldLeafBack(k) ==
    /\ is_leaf_at(last.post.nodes, last.bundleIn.updates[k].sender)
    /\ LeafAt(last.post.nodes, last.bundleIn.updates[k].sender)
          = LeafAt(last.pre.nodes, last.bundleIn.updates[k].sender)

\* C24: after a filtering batch_edit every staged Update dropped by the search for
\* the maximal update set has a new leaf that collides with another leaf of the
\* final tree, and has its old leaf back at its sender's index.
C24_Maximal ==
    (Returned("batch_edit") /\ last.filter /\ Ok) =>
        \A k \in 1..Len(last.bundleIn.updates) :
            DroppedBySearch(k) => BlockedInFinal(k) /\ OldLeafBack(k)

\* a call that applied its first Update, restarted the search once and dropped the
\* second Update
C24_Witness ==
    /\ Returned("batch_edit") /\ last.filter /\ Ok
    /\ Len(last.bundleIn.updates) = 2
    /\ Staged(1) /\ ~DroppedBySearch(1)
    /\ DroppedBySearch(2)
    /\ last.restarts = 1

\* a call that dropped an Update whose old leaf went back into the index
DroppedRestored ==
    /\ Returned("batch_edit") /\ last.filter /\ Ok
    /\ \E k \in 1..Len(last.bundleIn.updates) : DroppedBySearch(k)
    /\ last.restarts = 0

\* ---- C25 ----
\* the state of the call when the search for the maximal update set begins
SearchInput ==
    StagePhase(RemovePhase(last.pre, last.bundleIn, last.filter, last.env),
               last.filter, last.env)

RECURSIVE BrokenTrace(_, _, _, _, _, _)
\* the values of broken_updates at the start of the successive iterations of the
\* loop around find_max_update_set; an iteration ends the loop when it yields an
\* index or, in strict mode, an error; at most fuel further iterations are followed
BrokenTrace(index, broken, partial, env, filter, fuel) ==
    LET res == find_max_update_set(index, broken, partial, env, filter) IN
    IF res.kind = "Some" \/ (~filter /\ res.kind = "Err") \/ fuel = 0
    THEN <<broken>>
    ELSE <<broken>> \o BrokenTrace(index, res.broken, partial, env, filter, fuel - 1)

\* every iteration that went round again added one index that was not broken
GrowsStrictly(T) ==
    \A n \in 1..(Len(T) - 1) :
        /\ Len(T[n + 1]) = Len(T[n]) + 1
        /\ SubSeq(T[n + 1], 1, Len(T[n])) = T[n]
        /\ T[n + 1][Len(T[n + 1])] \notin Range(T[n])

\* the loop, followed for two iterations more than there are staged updates
TraceOf(s) ==
    BrokenTrace(s.index, <<>>, s.partial, last.env, last.filter, Len(s.partial) + 2)

SearchEnds(s, T) ==
    /\ GrowsStrictly(T)
    /\ Len(T) - 1 <= Len(s.partial)
    /\ last.restarts = Len(T) - 1
    /\ last.err # Err("Diverges", 0)

\* C25: the loop around find_max_update_set terminates: each iteration that does
\* not end it adds one new index to the broken set, no broken index comes back,
\* and there are at most as many restarts as staged updates.
C25_Terminates ==
    (Returned("batch_edit") /\ SearchInput.err = NoErr) =>
        SearchEnds(SearchInput, TraceOf(SearchInput))

\* three staged updates and two restarts
C25_Witness ==
    /\ Returned("batch_edit") /\ last.filter /\ Ok
    /\ Len(SearchInput.partial) = 3
    /\ last.restarts = 2

\* ---- C26 ----
\* C26: after any sequence of successful add_leaves and batch_edit calls the cache
\* tree_hashes.current equals, entry for entry, the array a computation of every
\* hash from the node array gives; before the first successful call it is empty.
C26_Incremental ==
    /\ IF tree.hashes = <<>> THEN tree.nodes = <<>>
       ELSE tree.hashes = Regenerated(tree.nodes)
    /\ (pc = "returned" /\ Ok) => last.post.hashes = Regenerated(last.post.nodes)

\* a batch_edit that trims a tree of more than four leaf slots down to a tree
\* that keeps a parent hash computed by an earlier call
C26_Witness ==
    /\ Returned("batch_edit") /\ Ok
    /\ Len(last.pre.nodes) > 7
    /\ Len(last.post.nodes) < Len(last.pre.nodes)
    /\ Len(last.post.nodes) >= 3
    /\ last.post.hashes[2] = last.pre.hashes[2]
    /\ last.post.hashes[2].t = "parent"

\* an add_leaves that makes the node array grow beyond the cache
CacheGrows ==
    /\ Returned("add_leaves") /\ Ok
    /\ Len(last.pre.hashes) >= 3
    /\ Len(last.post.hashes) > Len(last.pre.hashes)

\* ---- C27 ----
\* none of the proposals of the call may be dropped
AllBinding ==
    /\ \A j \in 1..Len(last.bundleIn.removes) : Binding(last.bundleIn.removes[j])
    /\ \A j \in 1..Len(last.bundleIn.updates) : Binding(last.bundleIn.updates[j])
    /\ \A j \in 1..Len(last.bundleIn.adds) : Binding(last.bundleIn.adds[j])

RECURSIVE CanAdd(_)
\* the k-th leaf of the call can be added: its identity is found and it collides
\* neither with an occupied leaf nor with an earlier leaf that can be added
CanAdd(k) ==
    /\ AddList[k].id \notin last.env.failIds
    /\ ClearOfTree(k)
    /\ \A j \in 1..(k - 1) : CanAdd(j) => ~Collide(AddList[k], AddList[j])

\* the first leaf of the call that cannot be added, 0 when all can
FirstBadAdd ==
    IF \A k \in 1..Len(AddList) : CanAdd(k) THEN 0
    ELSE CHOOSE k \in 1..Len(AddList) : ~CanAdd(k) /\ \A j \in 1..(k - 1) : CanAdd(j)

\* the kind of error the k-th leaf is rejected with
AddErrorKind(k) ==
    IF AddList[k].id \in last.env.failIds THEN "IdentityProviderError"
    ELSE "DuplicateLeafData"

\* the k-th Remove can be applied: it names an occupied leaf that no earlier one
\* named, and the identity of that leaf is found
CanRemove(k) ==
    LET li == last.bundleIn.removes[k].to_remove IN
    /\ is_leaf_at(last.pre.nodes, li)
    /\ \A j \in 1..(k - 1) : last.bundleIn.removes[j].to_remove # li
    /\ LeafAt(last.pre.nodes, li).id \notin last.env.failIds

FirstBadRemove ==
    IF \A k \in 1..Len(last.bundleIn.removes) : CanRemove(k) THEN 0
    ELSE CHOOSE k \in 1..Len(last.bundleIn.removes) :
             ~CanRemove(k) /\ \A j \in 1..(k - 1) : CanRemove(j)

RemoveErrorKind(k) ==
    LET li == last.bundleIn.removes[k].to_remove IN
    IF Beyond(li) THEN "InvalidNodeIndex"
    ELSE IF is_leaf_at(last.pre.nodes, li)
              /\ \A j \in 1..(k - 1) : last.bundleIn.removes[j].to_remove # li
    THEN "IdentityProviderError"
    ELSE "RemovingNonExistingMember"

\* the leaves a call made of Adds put into the tree it ran on
NewLeaves ==
    {li \in non_empty_leaves(last.post.nodes) :
        ~is_leaf_at(last.pre.nodes, li)}

\* a call of add_leaves, or a batch_edit of Adds that may not be dropped
AddCall ==
    /\ Returned("add_leaves") \/ Returned("batch_edit")
    /\ Len(last.bundleIn.removes) = 0 /\ Len(last.bundleIn.updates) = 0
    /\ ~last.env.hashFail
    /\ AllBinding
    /\ Len(AddList) > 0

\* a batch_edit of Removes that may not be dropped
RemoveCall ==
    /\ Returned("batch_edit")
    /\ Len(last.bundleIn.updates) = 0 /\ Len(last.bundleIn.adds) = 0
    /\ AllBinding
    /\ Len(last.bundleIn.removes) > 0

\* a call made of Removes stops at the first that cannot be applied: the error is
\* that Remove's, and a leaf named only by a later Remove is still in the tree
RemovesStopAtFirst ==
    (RemoveCall /\ FirstBadRemove > 0) =>
        /\ last.err.k = RemoveErrorKind(FirstBadRemove)
        /\ \A j \in (FirstBadRemove + 1)..Len(last.bundleIn.removes) :
              (is_leaf_at(last.pre.nodes, last.bundleIn.removes[j].to_remove)
               /\ \A h \in 1..FirstBadRemove :
                     last.bundleIn.removes[h].to_remove # last.bundleIn.removes[j].to_remove)
                  => is_leaf_at(last.post.nodes, last.bundleIn.removes[j].to_remove)

\* the error of a call made of Adds is that of the first leaf that cannot be added
AddsFirstKind == (AddCall /\ FirstBadAdd > 0) => last.err.k = AddErrorKind(FirstBadAdd)

\* no leaf is added after the first leaf that cannot be added
AddsStopAtFirst == (AddCall /\ FirstBadAdd > 0) => Cardinality(NewLeaves) <= FirstBadAdd - 1

\* C27 as stated: in strict mode, and for by-value proposals in filter mode, the
\* error returned is that of the first proposal (or, for add_leaves, the first
\* leaf) that cannot be applied, and nothing after it has been applied to the tree.
C27_FirstError == RemovesStopAtFirst /\ AddsFirstKind /\ AddsStopAtFirst

\* ---- C28 ----
\* the k-th Remove names a leaf inside the tree that is blank when the Remove is
\* examined: blank before the call, or named by an earlier Remove of the bundle
BlankTarget(k) ==
    LET li == last.bundleIn.removes[k].to_remove IN
    /\ ~Beyond(li)
    /\ \/ ~is_leaf_at(last.pre.nodes, li)
       \/ \E j \in 1..(k - 1) : last.bundleIn.removes[j].to_remove = li

\* every Remove before the k-th was applied, or was one a filtering call drops
EarlierRemovesFine(k) ==
    \A j \in 1..(k - 1) : CanRemove(j) \/ ~Binding(last.bundleIn.removes[j])

RECURSIVE KeptRemoves(_)
\* the first k Removes of the bundle without those that cannot be applied
KeptRemoves(k) ==
    IF k = 0 THEN <<>>
    ELSE KeptRemoves(k - 1)
           \o (IF CanRemove(k) THEN <<last.bundleIn.removes[k]>> ELSE <<>>)

\* what output.removed holds for the Removes r
RemovedOf(r) ==
    [j \in 1..Len(r) |-> <<r[j].to_remove, LeafAt(last.pre.nodes, r[j].to_remove)>>]

\* the bundle is made of Removes and the providers answer
RemovesOnly ==
    /\ Returned("batch_edit") /\ last.env = NormalEnv
    /\ Len(last.bundleIn.updates) = 0 /\ Len(last.bundleIn.adds) = 0

\* C28: a Remove of a blank leaf inside the tree (the second Remove of the same
\* leaf included) is rejected with RemovingNonExistingMember in strict mode or when
\* by value, and dropped from the bundle by a filtering call when by reference;
\* either way it blanks no node and adds nothing to output.removed.
C28_BlankRemove ==
    RemovesOnly =>
        \A k \in 1..Len(last.bundleIn.removes) :
            (BlankTarget(k) /\ EarlierRemovesFine(k)) =>
                IF Binding(last.bundleIn.removes[k])
                THEN /\ last.err = Err("RemovingNonExistingMember", 0)
                     /\ last.post.nodes
                           = RefRemoves(last.pre.nodes, KeptRemoves(k - 1), 1)
                     /\ last.removed = <<>>
                ELSE Ok =>
                     /\ last.bundleOut.removes
                           = KeptRemoves(Len(last.bundleIn.removes))
                     /\ last.removed
                           = RemovedOf(KeptRemoves(Len(last.bundleIn.removes)))
                     /\ last.post.nodes
                           = RefTrim(RefRemoves(last.pre.nodes,
                                                KeptRemoves(Len(last.bundleIn.removes)), 1))

\* a filtering call with two by-reference Removes of the same occupied leaf, whose
\* ancestors hold a parent node: the second Remove is dropped
C28_Witness ==
    /\ RemovesOnly /\ last.filter /\ Ok
    /\ Len(last.bundleIn.removes) = 2
    /\ last.bundleIn.removes[1].to_remove = last.bundleIn.removes[2].to_remove
    /\ ~last.bundleIn.removes[2].byval
    /\ is_leaf_at(last.pre.nodes, last.bundleIn.removes[1].to_remove)
    /\ Len(last.bundleOut.removes) = 1
    /\ Len(last.removed) = 1

\* a by-value Remove of a blank leaf below an occupied one, second in its bundle
BlankRemoveRejected ==
    /\ RemovesOnly /\ last.filter
    /\ Len(last.bundleIn.removes) = 2
    /\ BlankTarget(2) /\ last.bundleIn.removes[2].byval
    /\ ~is_leaf_at(last.pre.nodes, last.bundleIn.removes[2].to_remove)
    /\ CanRemove(1)
    /\ last.err = Err("RemovingNonExistingMember", 0)

\* ---- C29 ----
\* the k-th Update is by reference, its sender's leaf is occupied when the Update
\* is examined, and valid_successor answers false or fails
RejectedAtStaging(k) ==
    LET u == last.bundleIn.updates[k] IN
    /\ u.sender >= 0 /\ ~u.byval
    /\ is_leaf_at(last.pre.nodes, u.sender)
    /\ \A j \in 1..Len(last.bundleIn.removes) : last.bundleIn.removes[j].to_remove # u.sender
    /\ \A j \in 1..(k - 1) : ~Staged(j) \/ last.bundleIn.updates[j].sender # u.sender
    /\ valid_successor(LeafAt(last.pre.nodes, u.sender), u.leaf, last.env) # "true"

\* the bundle of the call without its k-th Update
WithoutUpdate(k) == [last.bundleIn EXCEPT !.updates = SeqWithout(@, {k}, 1)]

\* the call returned what r returned
SameOutcome(r) ==
    /\ last.err = r.err
    /\ last.post = [nodes |-> r.nodes, index |-> r.index, hashes |-> r.hashes]
    /\ last.removed = r.removed /\ last.added = r.added /\ last.updated = r.updated
    /\ Ok => last.bundleOut = r.bundle

\* C29: in filter mode a by-reference Update rejected at staging (valid_successor
\* false or failing) leaves the bundle, and the sender's leaf, direct path and the
\* index entries of the old leaf are as before it was examined: the call ends as
\* the call without that Update does, and a bundle of that Update alone changes
\* neither nodes nor index.
C29_StagingFrame ==
    (Returned("batch_edit") /\ last.filter) =>
        \A k \in 1..Len(last.bundleIn.updates) :
            RejectedAtStaging(k) =>
                /\ SameOutcome(batch_edit(last.pre, WithoutUpdate(k), TRUE, last.env))
                /\ BundleSize(last.bundleIn) = 1 =>
                      /\ Ok
                      /\ last.post.nodes = last.pre.nodes
                      /\ last.post.index = last.pre.index
                      /\ last.bundleOut.updates = <<>>

\* a filtering call drops a by-reference Update that is no valid successor while
\* a Remove of the same bundle blanks part of the sender's direct path
C29_Witness ==
    /\ Returned("batch_edit") /\ last.filter /\ Ok
    /\ Len(last.bundleIn.updates) = 1 /\ RejectedAtStaging(1)
    /\ last.env = NormalEnv
    /\ Len(last.removed) = 1
    /\ Ancestors(last.removed[1][1], Len(last.pre.nodes))
          \cap Ancestors(last.bundleIn.updates[1].sender, Len(last.pre.nodes)) # {}
    /\ last.bundleOut.updates = <<>>
    /\ LeafAt(last.post.nodes, last.bundleIn.updates[1].sender)
          = LeafAt(last.pre.nodes, last.bundleIn.updates[1].sender)

\* ---- C30 ----
\* the k-th Update does not come from a member
NonMember(k) == last.bundleIn.updates[k].sender < 0

\* the bundle cut before its k-th Update: the Removes and the Updates before it
UpTo(k) ==
    Bundle(last.bundleIn.removes, SubSeq(last.bundleIn.updates, 1, k - 1), <<>>)

\* the tree when the k-th Update is examined: after the Removes and the staging
\* of the Updates before it
Examined(k) ==
    StagePhase(RemovePhase(last.pre, UpTo(k), last.filter, last.env),
               last.filter, last.env)

\* the call stopped at its k-th Update with the tree as it was then
StoppedAt(k, r) ==
    /\ last.err = [k |-> "InvalidProposalTypeForSender", n |-> 0,
                   proposal_type |-> "UPDATE",
                   sender |-> last.bundleIn.updates[k].sender,
                   by_ref |-> ~last.bundleIn.updates[k].byval]
    /\ last.post.nodes = r.nodes
    /\ last.post.index = r.index

\* C30: an Update whose sender is not Member(index) touches no node: in strict
\* mode or when by value the call returns InvalidProposalTypeForSender with
\* proposal type UPDATE, the sender and the by_ref flag, the tree being as it was
\* when the Update was examined; a filtering call drops it when by reference,
\* ends as the call without it does, and the Updates it returns are the remaining
\* ones in their order.
C30_NonMemberUpdate ==
    Returned("batch_edit") =>
        \A k \in 1..Len(last.bundleIn.updates) :
            NonMember(k) =>
                IF Binding(last.bundleIn.updates[k])
                THEN \A r \in {Examined(k)} :
                        /\ r.err = NoErr => StoppedAt(k, r)
                        /\ BundleSize(last.bundleIn) = 1 =>
                              /\ last.post.nodes = last.pre.nodes
                              /\ last.post.index = last.pre.index
                ELSE /\ SameOutcome(batch_edit(last.pre, WithoutUpdate(k), TRUE, last.env))
                     /\ Ok => /\ IsSubseq(last.bundleOut.updates,
                                           SeqWithout(last.bundleIn.updates, {k}, 1))
                              /\ \A j \in 1..Len(last.bundleOut.updates) :
                                     last.bundleOut.updates[j].sender >= 0

\* a filtering call of three Updates drops the second, which is by reference and
\* from no member, and applies the first and the third in their order
C30_Witness ==
    /\ Returned("batch_edit") /\ last.filter /\ Ok
    /\ Len(last.bundleIn.updates) = 3
    /\ NonMember(2) /\ ~last.bundleIn.updates[2].byval
    /\ last.bundleOut.updates = <<last.bundleIn.updates[1], last.bundleIn.updates[3]>>
    /\ last.bundleIn.updates[1].sender # last.bundleIn.updates[3].sender
    /\ Len(last.updated) = 2

\* a by-value Update from no member stops a filtering call after a Remove and an
\* Update of a member were worked on
NonMemberRejected ==
    /\ Returned("batch_edit") /\ last.filter
    /\ Len(last.bundleIn.removes) = 1 /\ CanRemove(1)
    /\ Len(last.bundleIn.updates) = 2 /\ Staged(1)
    /\ NonMember(2) /\ last.bundleIn.updates[2].byval
    /\ last.err.k = "InvalidProposalTypeForSender"
    /\ last.err.by_ref = FALSE

\* ---- C31 ----
\* the entries an index holds for exactly the occupied leaves of nodes: every
\* identity, HPKE key and signature key of an occupied leaf maps to that leaf
ExactIds(nodes) ==
    {<<LeafAt(nodes, li).id, li>> : li \in non_empty_leaves(nodes)}
ExactHpke(nodes) ==
    {<<LeafAt(nodes, li).hpke, li>> : li \in non_empty_leaves(nodes)}
ExactSig(nodes) ==
    {<<LeafAt(nodes, li).sig, li>> : li \in non_empty_leaves(nodes)}

\* the entries of a map of the index, as pairs
Entries(m) == {<<x, m[x]>> : x \in DOMAIN m}

IndexExact(t) ==
    /\ Entries(t.index.ids) = ExactIds(t.nodes)
    /\ Entries(t.index.hpke) = ExactHpke(t.nodes)
    /\ Entries(t.index.sig) = ExactSig(t.nodes)
    /\ Cardinality(DOMAIN t.index.ids) = occupied_leaf_count(t.nodes)
    /\ Cardinality(DOMAIN t.index.hpke) = occupied_leaf_count(t.nodes)
    /\ Cardinality(DOMAIN t.index.sig) = occupied_leaf_count(t.nodes)

EditOps == {"add_leaves", "batch_edit", "rekey_leaf", "apply_update_path"}

\* C31: after every successful add_leaves, batch_edit, rekey_leaf and
\* apply_update_path the index holds one identity entry, one HPKE-key entry and
\* one signature-key entry per occupied leaf, each mapping to the leaf's index,
\* and nothing else, so the index has occupied_leaf_count entries.
C31_IndexExact ==
    (pc = "returned" /\ last.op \in EditOps /\ Ok) => IndexExact(last.post)

\* the same for the calls that start from a tree whose index is exact and are
\* not a filtering batch_edit with Updates
C31_ExactKept ==
    (pc = "returned" /\ last.op \in EditOps /\ Ok /\ IndexExact(last.pre)
        /\ ~(last.op = "batch_edit" /\ last.filter /\ Len(last.bundleIn.updates) > 0))
      => IndexExact(last.post)

\* ---- C32 ----
\* the highest occupied leaf of nodes
LastLeaf(nodes) ==
    CHOOSE li \in non_empty_leaves(nodes) : \A x \in non_empty_leaves(nodes) : x <= li

\* the call removed leaves, none of them the last one of the tree, and added none
RemovedInside ==
    /\ Len(last.removed) > 0 /\ Len(last.added) = 0
    /\ \A j \in 1..Len(last.removed) : last.removed[j][1] # LastLeaf(last.pre.nodes)

\* C32: after a successful batch_edit occupied_leaf_count is the count before the
\* call minus the entries of output.removed plus the entries of output.added,
\* whatever Updates were applied or dropped; removing leaves other than the last
\* one leaves total_leaf_count as it was.
C32_LeafCount ==
    (Returned("batch_edit") /\ Ok) =>
        /\ occupied_leaf_count(last.post.nodes)
             = occupied_leaf_count(last.pre.nodes) - Len(last.removed) + Len(last.added)
        /\ RemovedInside =>
             total_leaf_count(last.post.nodes) = total_leaf_count(last.pre.nodes)

\* a filtering call removes a leaf that is not the last one and drops an Update
C32_Witness ==
    /\ Returned("batch_edit") /\ Ok /\ last.filter
    /\ RemovedInside
    /\ Len(last.bundleIn.updates) = 1 /\ Len(last.bundleOut.updates) = 0
    /\ occupied_leaf_count(last.pre.nodes) >= 2

\* a call that applies an Update and adds a leaf
UpdateAndAdd ==
    /\ Returned("batch_edit") /\ Ok
    /\ Len(last.updated) = 1 /\ Len(last.added) = 1
    /\ occupied_leaf_count(last.post.nodes) = occupied_leaf_count(last.pre.nodes) + 1

\* a call that removes the last leaf of the tree and with it shortens the tree
LastLeafRemoved ==
    /\ Returned("batch_edit") /\ Ok
    /\ Len(last.removed) = 1 /\ Len(last.added) = 0
    /\ last.removed[1][1] = LastLeaf(last.pre.nodes)
    /\ total_leaf_count(last.post.nodes) < total_leaf_count(last.pre.nodes)

\* ---- C33 ----
\* the direct path of the sender of the last apply_update_path
SenderPath == direct_path(last.pre.nodes, last.arg)

\* C33: when apply_update_path succeeds the sender's leaf is the new leaf of the
\* update path, every direct-path position for which the path supplies an entry
\* is a parent node with that entry's public key and no unmerged leaf, and every
\* position whose entry is None is blank.
C33_PathApplied ==
    (Returned("apply_update_path") /\ Ok) =>
        /\ At(last.post.nodes, 2 * last.arg) = LeafN(last.leaf)
        /\ Len(last.path) = Len(SenderPath)
        /\ \A j \in 1..Len(SenderPath) :
              IF last.path[j] # 0
              THEN At(last.post.nodes, SenderPath[j]) = ParentN(last.path[j], <<>>)
              ELSE At(last.post.nodes, SenderPath[j]) = Blank

\* an update path with an entry and a None replaces a parent that had another key
\* and an unmerged leaf
C33_Witness ==
    /\ Returned("apply_update_path") /\ Ok
    /\ \E j \in 1..Len(SenderPath) : last.path[j] = 0
    /\ \E j \in 1..Len(SenderPath) :
          /\ last.path[j] # 0
          /\ At(last.pre.nodes, SenderPath[j]).t = "P"
          /\ At(last.pre.nodes, SenderPath[j]).pk # last.path[j]
          /\ At(last.pre.nodes, SenderPath[j]).um # <<>>

\* ---- C34 ----
\* the last call replaced, or tried to replace, the occupied leaf last.arg by
\* last.leaf, and the identity provider answered
Replacing ==
    /\ pc = "returned" /\ last.op \in {"rekey_leaf", "apply_update_path"}
    /\ is_leaf_at(last.pre.nodes, last.arg)
    /\ last.env.failIds = {}

\* the new leaf shares its identity or a key with an occupied leaf other than
\* the one it replaces
CollidesWithOther ==
    \E j \in non_empty_leaves(last.pre.nodes) \ {last.arg} :
        Collide(last.leaf, LeafAt(last.pre.nodes, j))

\* C34: apply_update_path and rekey_leaf fail with DuplicateLeafData exactly when
\* the new leaf's identity, HPKE key or signature key collides with an occupied
\* leaf other than the one being replaced; reusing the identity or the keys of
\* the replaced leaf is accepted.
C34_DuplicateExactly ==
    Replacing => (last.err.k = "DuplicateLeafData" <=> CollidesWithOther)

\* the same for the calls on a tree whose index is exact
C34_OnExactIndex ==
    (Replacing /\ IndexExact(last.pre)) =>
        (last.err.k = "DuplicateLeafData" <=> CollidesWithOther)

\* a leaf replaced by one that keeps its identity and its keys
ReuseAccepted ==
    /\ Replacing /\ Ok /\ IndexExact(last.pre)
    /\ occupied_leaf_count(last.pre.nodes) >= 2
    /\ last.leaf.id = LeafAt(last.pre.nodes, last.arg).id
    /\ last.leaf.sig = LeafAt(last.pre.nodes, last.arg).sig
    /\ last.leaf.hpke = LeafAt(last.pre.nodes, last.arg).hpke

\* ---------------------------------------------------------------------------
\* C35
\* ---------------------------------------------------------------------------

\* the ancestor whose unmerged leaves are left out for node n: the root for the
\* root, else the nearest non-blank node above n, else the root
RECURSIVE DeepestNonBlankAncestor(_, _, _)
DeepestNonBlankAncestor(nodes, n, rt) ==
    IF n = rt THEN rt
    ELSE IF At(nodes, parent(n)).t # "B" THEN parent(n)
    ELSE DeepestNonBlankAncestor(nodes, parent(n), rt)

ExcludedFor(nodes, n) ==
    LET a == DeepestNonBlankAncestor(nodes, n, RootOf(nodes))
    IN IF At(nodes, a).t = "P" THEN Range(At(nodes, a).um) ELSE {}

RECURSIVE RefOriginal(_, _, _)
\* the tree hash of node n with the leaves of U hashed as blank leaves and taken
\* out of the unmerged leaves of every parent of the subtree
RefOriginal(nodes, n, U) ==
    IF n % 2 = 0
    THEN hash_for_leaf(n \div 2, IF (n \div 2) \in U THEN Blank ELSE At(nodes, n))
    ELSE [t |-> "parent",
          parent_node |-> IF At(nodes, n).t = "P"
                          THEN [At(nodes, n) EXCEPT !.um = SelectSeq(@, LAMBDA u : u \notin U)]
                          ELSE Blank,
          left_hash |-> RefOriginal(nodes, n - Pow2(level(n) - 1), U),
          right_hash |-> RefOriginal(nodes, n + Pow2(level(n) - 1), U)]

OriginalReturned ==
    /\ pc = "returned"
    /\ last.op = "compute_original_hashes"
    /\ tree.hashes = Regenerated(tree.nodes)

OriginalAsStated ==
    /\ last.err = NoErr
    /\ Len(last.original) = 2 * total_leaf_count(tree.nodes) - 1
    /\ \A i \in 1..Len(last.original) :
         last.original[i] = RefOriginal(tree.nodes, i - 1, ExcludedFor(tree.nodes, i - 1))

\* C35: on a tree whose hash cache is up to date, compute_original_hashes
\* returns for every node n the tree hash of n with the unmerged leaves of n's
\* deepest non-blank ancestor (or of the root) hashed as blank leaves and taken
\* out of every parent's unmerged leaves, whatever the shape of the tree
C35_OriginalHashes == OriginalReturned => OriginalAsStated

\* what the code does guarantee: the same on every tree whose root is not blank
C35_NonBlankRoot ==
    (OriginalReturned /\ At(tree.nodes, RootOf(tree.nodes)).t # "B") => OriginalAsStated

\* a compute_original_hashes call on a tree with a non-blank root and a parent
\* with unmerged leaves
FilteredOriginal ==
    /\ OriginalReturned
    /\ At(tree.nodes, RootOf(tree.nodes)).t = "P"
    /\ \E i \in 1..Len(tree.nodes) : tree.nodes[i].t = "P" /\ tree.nodes[i].um # <<>>

\* ---------------------------------------------------------------------------
\* C40
\* ---------------------------------------------------------------------------

NoUnmerged(nodes) ==
    \A i \in 1..Len(nodes) : nodes[i].t = "P" => nodes[i].um = <<>>

\* C40: on a tree none of whose parents has an unmerged leaf,
\* compute_original_hashes returns for every node the hash that
\* tree_hashes.current holds for it
C40_OriginalIsCurrent ==
    (pc = "returned" /\ last.op = "compute_original_hashes" /\ NoUnmerged(tree.nodes))
        => /\ last.err = NoErr
           /\ Len(last.original) = 2 * total_leaf_count(tree.nodes) - 1
           /\ \A i \in 1..Len(last.original) : last.original[i] = tree.hashes[i]

\* the call on a tree with a parent node below a parent root, no leaf unmerged
C40_Witness ==
    /\ pc = "returned"
    /\ last.op = "compute_original_hashes"
    /\ last.err = NoErr
    /\ NoUnmerged(tree.nodes)
    /\ At(tree.nodes, RootOf(tree.nodes)).t = "P"
    /\ \E i \in 1..Len(tree.nodes) :
         i - 1 # RootOf(tree.nodes) /\ tree.nodes[i].t = "P"

\* ---------------------------------------------------------------------------
\* C36
\* ---------------------------------------------------------------------------

TreeHashReturned == pc = "returned" /\ last.op = "tree_hash"

\* the first call on an empty cache computes the hash of every node
FirstComputesAll ==
    (last.pre.hashes = <<>> /\ last.err = NoErr)
        => /\ tree.hashes = Regenerated(tree.nodes)
           /\ last.hash = tree.hashes[RootOf(tree.nodes) + 1]

\* a call on a filled cache returns current[root], whatever the provider would
\* answer, and leaves every entry as it was
LaterReadsCache ==
    last.pre.hashes # <<>>
        => /\ last.err = NoErr
           /\ tree.hashes = last.pre.hashes
           /\ last.hash = last.pre.hashes[RootOf(tree.nodes) + 1]

\* the call that follows on the unchanged tree returns the same value
NextCallSame ==
    last.err = NoErr
        => \A hashFail \in BOOLEAN :
             /\ tree_hash(tree, [NormalEnv EXCEPT !.hashFail = hashFail]).err = NoErr
             /\ tree_hash(tree, [NormalEnv EXCEPT !.hashFail = hashFail]).hash = last.hash
             /\ tree_hash(tree, [NormalEnv EXCEPT !.hashFail = hashFail]).hashes = tree.hashes

\* C36: tree_hash on an unchanged tree is idempotent: the first call on an
\* empty cache computes every node hash, a later call returns current[root]
\* without recomputing or changing any cache entry, and the call after a
\* tree_hash that returned a value returns that value again
C36_Idempotent == TreeHashReturned => (FirstComputesAll /\ LaterReadsCache /\ NextCallSame)

\* a tree_hash call on a filled cache of a tree with several nodes, made with
\* a provider whose hash function fails
C36_Witness ==
    /\ TreeHashReturned
    /\ last.pre.hashes # <<>>
    /\ last.env.hashFail
    /\ last.err = NoErr
    /\ Len(tree.nodes) >= 3
    /\ last.hash # DefaultHash

\* a tree_hash call that fills the empty cache of a tree with several nodes
FirstCallFills ==
    /\ TreeHashReturned
    /\ last.pre.hashes = <<>>
    /\ last.err = NoErr
    /\ Len(tree.nodes) >= 3

\* ---------------------------------------------------------------------------
\* C37
\* ---------------------------------------------------------------------------

\* the last call ran the hash loops: a tree_hash on an empty cache or the
\* update_hashes of an add_leaves
HashRun ==
    /\ pc = "returned"
    /\ last.err = NoErr
    /\ \/ last.op = "tree_hash" /\ last.pre.hashes = <<>>
       \/ last.op = "add_leaves"

\* the leaves the run was given
RunLeaves ==
    IF last.op = "tree_hash"
    THEN [j \in 1..total_leaf_count(tree.nodes) |-> j - 1]
    ELSE last.added \o trailing_blanks(last.pre.hashes, total_leaf_count(tree.nodes) - 1)

RunQueue ==
    LeafQueue(last.pre.hashes, tree.nodes, RunLeaves, total_leaf_count(tree.nodes))

Distinct(s) == \A i, j \in 1..Len(s) : s[i] = s[j] => i = j

\* C37: during one update_hashes or full tree_hash run the work queue never
\* holds a node twice and no node's hash is computed more than once
C37_QueueDistinct ==
    HashRun => /\ Distinct(RunQueue)
               /\ Distinct(Recomputed(RunQueue, RootOf(tree.nodes)))

\* what does hold: the run computes the hash of every node above a given leaf
C37_PathsCovered ==
    HashRun =>
        \A j \in 1..Len(RunLeaves) :
            RunLeaves[j] < total_leaf_count(tree.nodes) =>
                \A n \in Range(PathFrom(2 * RunLeaves[j], total_leaf_count(tree.nodes))) :
                    n \in Range(Recomputed(RunQueue, RootOf(tree.nodes)))

\* ---------------------------------------------------------------------------
\* C38
\* ---------------------------------------------------------------------------

StrictReturned == pc = "returned" /\ last.op = "batch_edit" /\ ~last.filter

\* C38: a batch_edit with filter = false leaves the bundle as it was passed in,
\* removes, updates and adds in the same order, whether it returns Ok or an
\* error
C38_StrictKeepsBundle ==
    StrictReturned =>
        /\ last.bundleOut.removes = last.bundleIn.removes
        /\ last.bundleOut.updates = last.bundleIn.updates
        /\ last.bundleOut.adds = last.bundleIn.adds

\* a strict call that fails on a bundle from which the filtering call on the
\* same tree drops a proposal and then succeeds
C38_Witness ==
    /\ StrictReturned
    /\ last.err # NoErr
    /\ batch_edit(last.pre, last.bundleIn, TRUE, last.env).err = NoErr
    /\ batch_edit(last.pre, last.bundleIn, TRUE, last.env).bundle # last.bundleIn

\* a strict call that succeeds with two proposals
StrictApplied ==
    /\ StrictReturned
    /\ last.err = NoErr
    /\ Len(last.bundleIn.removes) + Len(last.bundleIn.updates) + Len(last.bundleIn.adds) >= 2

\* ---------------------------------------------------------------------------
\* C39
\* ---------------------------------------------------------------------------

RekeyReturned == pc = "returned" /\ last.op = "rekey_leaf"

\* the call has left the node array and the index as they were
RekeyUntouched ==
    /\ last.post.nodes = last.pre.nodes
    /\ last.post.index = last.pre.index

\* only the leaf at the given index differs, and it is the new leaf
RekeyOnlyLeaf ==
    /\ Len(last.post.nodes) = Len(last.pre.nodes)
    /\ At(last.post.nodes, 2 * last.arg) = LeafN(last.leaf)
    /\ \A i \in 1..Len(last.pre.nodes) :
         i # 2 * last.arg + 1 => last.post.nodes[i] = last.pre.nodes[i]

\* C39: a rekey_leaf that returns an error has modified neither the node array
\* nor the tree index, and one that succeeds has changed the leaf at the given
\* index and nothing else in the node array
C39_RekeyAtomic ==
    RekeyReturned => IF last.err # NoErr THEN RekeyUntouched ELSE RekeyOnlyLeaf

\* the call gave up before the index was touched: no leaf at the index, or the
\* provider failed for the leaf stored there
GaveUpEarly ==
    \/ ~is_leaf_at(last.pre.nodes, last.arg)
    \/ identity(At(last.pre.nodes, 2 * last.arg).leaf, last.env).err # NoErr

\* what the code does guarantee: the success case, and the error case when the
\* call gave up before the index was touched
C39_EarlyOrDone ==
    RekeyReturned =>
        /\ last.err = NoErr => RekeyOnlyLeaf
        /\ GaveUpEarly => (last.err # NoErr /\ RekeyUntouched)

\* a rekey_leaf that replaces a leaf of a tree with several leaves
RekeyApplied ==
    /\ RekeyReturned
    /\ last.err = NoErr
    /\ LeafN(last.leaf) # At(last.pre.nodes, 2 * last.arg)
    /\ Len(last.pre.nodes) >= 3

====
